---- MODULE Spec2Model ----
(***************************************************************************)
(* Statement ingestion of track-money: the POST /api/upload handler of     *)
(* src/server/working-server.ts, its format detection, row building,       *)
(* categorisation, duplicate filter and persistence, as a state machine.   *)
(* Every await of the handler is one step; several requests interleave at  *)
(* the awaits, as they do on the Node event loop.  parseCSV and             *)
(* categorizeTransaction are also called directly, on a larger alphabet.   *)
(***************************************************************************)
EXTENDS Integers, Sequences, FiniteSets, TLC

\* ---------------------------------------------------------------- bounds
MaxUploads == 2     \* upload requests that arrive in one behaviour
MaxActive == 2      \* requests in flight at the same time
MaxFaults == 1      \* persistence operations that raise in one behaviour
MaxLines == 3       \* lines of a delimited file given to parseCSV directly

Uploads == 1..MaxUploads

\* ------------------------------------------------------ input alphabet
\* A cell of a delimited file is the sequence of its space-separated words;
\* the empty cell is <<>>, a cell of white space only is Blank.  A line is
\* the sequence of its cells.
Empty == <<>>
Blank == <<" ">>

Walmart == <<"Walmart", "Supercenter">>
Shell == <<"Shell", "Gas", "Station">>
PlanetFitness == <<"Planet", "Fitness", "Gym", "Membership">>
AmazonPrime == <<"Amazon", "Prime", "Store">>
VegasParking == <<"Vegas", "Parking">>
Venmo == <<"Venmo", "Payment">>
CreditCardPayment == <<"Credit", "Card", "Payment">>

HeaderLine == <<<<"Date">>, <<"Description">>, <<"Amount">>>>
HeaderDebitCredit == <<<<"Date">>, <<"Description">>, <<"Debit">>, <<"Credit">>>>

Row1 == <<<<"07/28/2024">>, Walmart, <<"-89.45">>>>
Row2 == <<<<"07/27/2024">>, Shell, <<"-45.67">>>>
Row3 == <<<<"07/26/2024">>, PlanetFitness, <<"-29.99">>>>
\* the same charge as Row3 one month earlier: equal description and amount
Row4 == <<<<"06/26/2024">>, PlanetFitness, <<"-29.99">>>>
RowNoAmount == <<<<"07/25/2024">>, Shell, Empty>>

\* Rows for the header Date,Description,Debit,Credit.
RowDebit == <<<<"07/28/2024">>, Walmart, <<"29.99">>, Empty>>
RowCredit == <<<<"07/27/2024">>, Venmo, Empty, <<"29.99">>>>
RowDebitNotNumeric == <<<<"07/26/2024">>, Shell, <<"N/A">>, Empty>>
\* A row for the header Date,Description,Amount,Debit,Credit: a charge that
\* the file gives both as a signed amount and as a debit.
HeaderAmountDebitCredit == <<<<"Date">>, <<"Description">>, <<"Amount">>, <<"Debit">>, <<"Credit">>>>
RowAmountAndDebit == <<<<"07/26/2024">>, PlanetFitness, <<"-89.45">>, <<"29.99">>, Empty>>
\* Rows for the header Date,Description,Amount that must give no transaction.
RowZero == <<<<"07/28/2024">>, Walmart, <<"0.00">>>>
RowBlankDescription == <<<<"07/28/2024">>, Blank, <<"-89.45">>>>
RowBadDate == <<<<"N/A">>, Walmart, <<"-89.45">>>>
\* Lines of a file without header line: date, amount, two other cells, description.
Positional1 == <<<<"07/28/2024">>, <<"-89.45">>, <<"*">>, Empty, Walmart>>
Positional2 == <<<<"07/27/2024">>, <<"(45.67)">>, <<"*">>, Empty, VegasParking>>
PositionalCredit == <<<<"07/26/2024">>, <<"29.99">>, <<"*">>, Empty, CreditCardPayment>>

Lines == {HeaderLine, HeaderDebitCredit, Row1, RowNoAmount, RowDebit, RowCredit,
          RowDebitNotNumeric, RowZero, RowBlankDescription, RowBadDate,
          Positional1, Positional2, PositionalCredit,
          HeaderAmountDebitCredit, RowAmountAndDebit}

Descriptions == {Walmart, Shell, PlanetFitness, AmazonPrime, VegasParking, Venmo,
                 CreditCardPayment}

\* An uploaded file: the extension of its original name, whether its first
\* four bytes are '%PDF', whether its first 100 bytes hold a comma, whether
\* the temporary file can be read, and its lines.
NoFile == [ext |-> "", magic |-> FALSE, comma |-> FALSE, readable |-> FALSE, lines |-> <<>>]
FileTwoRows == [ext |-> "csv", magic |-> FALSE, comma |-> TRUE, readable |-> TRUE, lines |-> <<HeaderLine, Row1, Row2>>]
FileRepeated == [ext |-> "csv", magic |-> FALSE, comma |-> TRUE, readable |-> TRUE, lines |-> <<HeaderLine, Row3, Row3>>]
FileMissingAmount == [ext |-> "csv", magic |-> FALSE, comma |-> TRUE, readable |-> TRUE, lines |-> <<HeaderLine, RowNoAmount, Row4>>]
FilePdfNamedCsv == [ext |-> "csv", magic |-> TRUE, comma |-> TRUE, readable |-> TRUE, lines |-> <<>>]
FilePdf == [ext |-> "pdf", magic |-> TRUE, comma |-> FALSE, readable |-> TRUE, lines |-> <<>>]
FileText == [ext |-> "txt", magic |-> FALSE, comma |-> FALSE, readable |-> TRUE, lines |-> <<>>]
FileUnreadable == [ext |-> "csv", magic |-> FALSE, comma |-> TRUE, readable |-> FALSE, lines |-> <<HeaderLine, Row1>>]

Files == {FileTwoRows, FileRepeated, FileMissingAmount, FilePdfNamedCsv, FilePdf, FileText, FileUnreadable}

\* req.body.sourceId as sent by the client; "" when the field is absent.
SourceInputs == {"", "default_bank_account"}

\* --------------------------------------------------------- categoriser
Rules == <<
  [categoryId |-> "subscriptions", keywords |-> {"netflix", "spotify", "apple music", "youtube premium", "disney+", "hulu", "amazon prime", "subscription", "claude.ai", "anthropic", "openai", "gpt", "notion", "slack", "zoom", "adobe", "microsoft", "office 365", "google one", "dropbox", "icloud"}],
  [categoryId |-> "fitness", keywords |-> {"gym", "fitness", "yoga", "pilates", "crossfit", "planet fitness", "la fitness", "equinox", "24 hour fitness", "bintang badminton", "badminton", "sports club", "tennis", "swimming", "martial arts"}],
  [categoryId |-> "education", keywords |-> {"udemy", "coursera", "khan academy", "skillshare", "pluralsight", "linkedin learning", "education", "tuition", "school", "university", "college", "textbook", "course", "training", "certification", "interviewing.io", "hellointerview"}],
  [categoryId |-> "personal_care", keywords |-> {"salon", "spa", "barber", "haircut", "massage", "manicure", "pedicure", "facial", "beauty", "cosmetics", "skincare", "footlax", "kashish salon"}],
  [categoryId |-> "bills", keywords |-> {"insurance", "phone bill", "internet", "cable", "wireless", "verizon", "at&t", "comcast", "xfinity", "mortgage", "rent", "hoa", "property tax"}],
  [categoryId |-> "home_garden", keywords |-> {"home depot", "lowes", "ikea", "furniture", "appliances", "garden", "hardware", "home improvement", "decor"}],
  [categoryId |-> "groceries", keywords |-> {"grocery", "supermarket", "walmart", "target", "costco", "safeway", "apni mandi", "mandi", "trader joe", "whole foods", "kroger", "new india bazar"}],
  [categoryId |-> "restaurants", keywords |-> {"restaurant", "cafe", "coffee", "pizza", "burger", "starbucks", "mcdonald", "biryani", "indian", "namaste", "paradise", "mylapore", "jollibee", "doordash", "tst*", "sq *", "dd *", "uber eats", "grubhub", "postmates", "food delivery", "kitchen", "cuisine", "hungry bear", "chick-fil-a"}],
  [categoryId |-> "gas", keywords |-> {"gas", "fuel", "shell", "exxon", "chevron", "bp", "valero", "electrify america"}],
  [categoryId |-> "shopping", keywords |-> {"amazon", "ebay", "shop", "store", "retail", "mktpl", "marketplace", "mall", "clothing", "fashion", "shoes", "electronics", "flavcity"}],
  [categoryId |-> "utilities", keywords |-> {"electric", "water", "utility", "power", "pge", "sdge", "gas company"}],
  [categoryId |-> "transport", keywords |-> {"uber", "lyft", "taxi", "bus", "parking", "metro", "clipper", "bart", "caltrain", "bridge toll", "monterey parking"}],
  [categoryId |-> "entertainment", keywords |-> {"movie", "theater", "cinema", "concert", "show", "ticket", "entertainment", "mystery spot", "amusement", "park"}],
  [categoryId |-> "healthcare", keywords |-> {"pharmacy", "cvs", "walgreens", "doctor", "hospital", "medical", "dentist", "vision", "health"}],
  [categoryId |-> "travel", keywords |-> {"hotel", "flight", "airline", "airbnb", "booking", "expedia", "travel", "vacation", "resort", "lodge", "ynp", "curry village", "degnans", "basecamp eatery"}]
>>

toLowerCase_Identity(words) == words

\* String.prototype.toLowerCase on the words of the alphabet.
toLowerCase(words) ==
  [i \in DOMAIN words |->
     CASE words[i] = "Walmart" -> "walmart"
       [] words[i] = "Supercenter" -> "supercenter"
       [] words[i] = "Shell" -> "shell"
       [] words[i] = "Gas" -> "gas"
       [] words[i] = "Station" -> "station"
       [] words[i] = "Planet" -> "planet"
       [] words[i] = "Fitness" -> "fitness"
       [] words[i] = "Gym" -> "gym"
       [] words[i] = "Membership" -> "membership"
       [] words[i] = "Amazon" -> "amazon"
       [] words[i] = "Prime" -> "prime"
       [] words[i] = "Store" -> "store"
       [] words[i] = "Vegas" -> "vegas"
       [] words[i] = "Parking" -> "parking"
       [] words[i] = "Venmo" -> "venmo"
       [] words[i] = "Payment" -> "payment"
       [] words[i] = "Credit" -> "credit"
       [] words[i] = "Card" -> "card"
       [] words[i] = "PAYMENT" -> "payment"
       [] words[i] = "THANK" -> "thank"
       [] words[i] = "YOU" -> "you"
       [] words[i] = "Refund" -> "refund"
       [] words[i] = "CR" -> "cr"
       [] OTHER -> words[i]]

\* The keywords of the rule tables that occur inside one lowercase word of
\* the alphabet ("vegas" holds "gas", "parking" holds "park"; "station" is a
\* keyword of the table of TransactionCategorizer only).
keywordsInWord(word) ==
  CASE word = "walmart" -> {"walmart"}
    [] word = "shell" -> {"shell"}
    [] word = "gas" -> {"gas"}
    [] word = "vegas" -> {"gas"}
    [] word = "fitness" -> {"fitness"}
    [] word = "gym" -> {"gym"}
    [] word = "amazon" -> {"amazon"}
    [] word = "store" -> {"store"}
    [] word = "parking" -> {"parking", "park"}
    [] word = "station" -> {"station"}
    [] OTHER -> {}

\* The keywords of the rule table that span several words of the alphabet.
keywordWords(keyword) ==
  CASE keyword = "planet fitness" -> <<"planet", "fitness">>
    [] keyword = "amazon prime" -> <<"amazon", "prime">>
    [] OTHER -> <<>>

\* text.includes(keyword), the text being its words joined by single spaces.
includes(text, keyword) ==
  \/ \E i \in DOMAIN text : keyword \in keywordsInWord(text[i])
  \/ /\ keywordWords(keyword) # <<>>
     /\ \E i \in DOMAIN text :
          /\ i + Len(keywordWords(keyword)) - 1 <= Len(text)
          /\ SubSeq(text, i, i + Len(keywordWords(keyword)) - 1) = keywordWords(keyword)

firstMatch_MostKeywords(text, i) ==
  LET hits(r) == Cardinality({k \in Rules[r].keywords : includes(text, k)})
      best == {r \in i..Len(Rules) :
                 hits(r) > 0 /\ \A q \in i..Len(Rules) : hits(q) <= hits(r)}
  IN IF best = {} THEN "other"
     ELSE Rules[CHOOSE r \in best : \A q \in best : r <= q].categoryId

\* The loop over the rules: the first rule one of whose keywords the text includes.
RECURSIVE firstMatch(_, _)
firstMatch(text, i) ==
  IF i > Len(Rules) THEN "other"
  ELSE IF \E keyword \in Rules[i].keywords : includes(text, keyword)
       THEN Rules[i].categoryId
       ELSE firstMatch(text, i + 1)

categorizeTransaction_RuleNotSeeded(description, merchantName) ==
  IF firstMatch(toLowerCase(description \o merchantName), 1) = "gas" THEN "fuel"
  ELSE firstMatch(toLowerCase(description \o merchantName), 1)

\* The text is description + ' ' + (merchantName || ''), in lower case.
categorizeTransaction(description, merchantName) ==
  firstMatch(toLowerCase(description \o merchantName), 1)

\* The rule table of TransactionCategorizer.categorizeTransaction.
TransactionCategorizer_Rules == <<
  [categoryId |-> "groceries", keywords |-> {"grocery", "supermarket", "walmart", "target", "costco", "safeway", "kroger", "food", "market"}],
  [categoryId |-> "gas", keywords |-> {"gas", "fuel", "shell", "exxon", "chevron", "bp", "76", "mobil", "station"}],
  [categoryId |-> "restaurants", keywords |-> {"restaurant", "cafe", "coffee", "pizza", "burger", "taco", "subway", "mcdonald", "starbucks", "kfc", "dining"}],
  [categoryId |-> "shopping", keywords |-> {"amazon", "ebay", "shop", "store", "retail", "mall", "outlet", "department"}],
  [categoryId |-> "utilities", keywords |-> {"electric", "water", "gas company", "utility", "power", "energy", "pge", "edison"}],
  [categoryId |-> "transport", keywords |-> {"uber", "lyft", "taxi", "bus", "metro", "transit", "parking", "toll"}],
  [categoryId |-> "entertainment", keywords |-> {"netflix", "spotify", "hulu", "disney", "movie", "theater", "cinema", "concert", "game"}],
  [categoryId |-> "healthcare", keywords |-> {"pharmacy", "cvs", "walgreens", "doctor", "hospital", "medical", "clinic", "health"}],
  [categoryId |-> "travel", keywords |-> {"airline", "hotel", "booking", "expedia", "airbnb", "flight", "airport"}]
>>

RECURSIVE TransactionCategorizer_firstMatch_NoMapLookup(_, _, _)
TransactionCategorizer_firstMatch_NoMapLookup(text, i, map) ==
  IF i > Len(TransactionCategorizer_Rules) THEN "other"
  ELSE IF \E keyword \in TransactionCategorizer_Rules[i].keywords : includes(text, keyword)
       THEN TransactionCategorizer_Rules[i].categoryId
       ELSE TransactionCategorizer_firstMatch_NoMapLookup(text, i + 1, map)

\* The loop over the rules of TransactionCategorizer: the first rule with
\* matchCount > 0 whose categoryId is a key of this.categories.
RECURSIVE TransactionCategorizer_firstMatch(_, _, _)
TransactionCategorizer_firstMatch(text, i, map) ==
  IF i > Len(TransactionCategorizer_Rules) THEN "other"
  ELSE IF /\ \E keyword \in TransactionCategorizer_Rules[i].keywords : includes(text, keyword)
          /\ TransactionCategorizer_Rules[i].categoryId \in map
       THEN TransactionCategorizer_Rules[i].categoryId
       ELSE TransactionCategorizer_firstMatch(text, i + 1, map)

\* TransactionCategorizer.categorizeTransaction with this.categories = map.
TransactionCategorizer_categorizeTransaction(description, merchantName, map) ==
  TransactionCategorizer_firstMatch(toLowerCase(description \o merchantName), 1, map)

\* description.split(' ').slice(0, 3).join(' ')
merchantNameOf(description) ==
  SubSeq(description, 1, IF Len(description) < 3 THEN Len(description) ELSE 3)

\* ------------------------------------------------------ row extraction
\* The result of a Date constructor is the ISO day, "null" when parseDate
\* returns null.  Amounts are in cents; NaN is the not-a-number value.
NullDate == "null"
NaN == 2147483647
isNaN(x) == x = NaN
abs(x) == IF isNaN(x) THEN NaN ELSE IF x < 0 THEN -x ELSE x
negate(x) == IF isNaN(x) THEN NaN ELSE -x

\* parseDate on the cells of the alphabet: MM/DD/YYYY and YYYY-MM-DD match a
\* format, every other cell falls through to an invalid Date.
parseDate(cell) ==
  CASE cell = <<"07/28/2024">> -> "2024-07-28"
    [] cell = <<"07/27/2024">> -> "2024-07-27"
    [] cell = <<"07/26/2024">> -> "2024-07-26"
    [] cell = <<"07/25/2024">> -> "2024-07-25"
    [] cell = <<"06/26/2024">> -> "2024-06-26"
    [] cell = <<"2024-07-28">> -> "2024-07-28"
    [] OTHER -> NullDate

\* parseAmount on the cells of the alphabet: parseFloat after '$', ',' and
\* white space are removed, negative inside parentheses, NaN otherwise.
parseAmount(cell) ==
  CASE cell = <<"-89.45">> -> -8945
    [] cell = <<"-45.67">> -> -4567
    [] cell = <<"-29.99">> -> -2999
    [] cell = <<"29.99">> -> 2999
    [] cell = <<"(45.67)">> -> -4567
    [] cell = <<"0.00">> -> 0
    [] cell = <<"89.45">> -> 8945
    [] cell = <<"45.67">> -> 4567
    [] OTHER -> NaN

\* String.prototype.trim on a cell.
trim(cell) == IF cell = Blank THEN Empty ELSE cell

\* csv(): the first line gives the property names, every later line becomes
\* an object whose properties, in column order, are the cells of the line.
csvParser(lines) ==
  IF lines = <<>> THEN <<>>
  ELSE [i \in 1..(Len(lines) - 1) |->
          [j \in 1..Len(lines[i + 1]) |->
             [key |-> IF j <= Len(lines[1]) THEN lines[1][j] ELSE <<"_", "extra">>,
              value |-> lines[i + 1][j]]]]

\* row[field]; Empty stands for undefined as well as for '' (both falsy).
RECURSIVE property(_, _, _)
property(row, field, j) ==
  IF j = 0 THEN Empty
  ELSE IF row[j].key = field THEN row[j].value
       ELSE property(row, field, j - 1)

get(row, field) == property(row, field, Len(row))

\* /date|description|amount|transaction|debit|credit|name|memo/i.test(cell)
\* on the words of the alphabet.
testHeaderToken(cell) ==
  \E i \in DOMAIN cell :
    cell[i] \in {"Date", "Description", "Amount", "Transaction", "Debit",
                 "Credit", "Name", "Memo"}

\* hasHeaders of parseCSV: a property name or a value of rows[0] has a token.
hasHeaders(rows) ==
  \E j \in DOMAIN rows[1] :
    testHeaderToken(rows[1][j].key) \/ testHeaderToken(rows[1][j].value)

allDateFields == <<<<"Date">>, <<"Transaction", "Date">>, <<"Posted", "Date">>,
                   <<"date">>, <<"Transaction", "Date">>, <<"Posted", "Date">>>>
allDescriptionFields == <<<<"Name">>, <<"Description">>, <<"Merchant">>,
                          <<"Transaction", "Description">>, <<"description">>,
                          <<"Transaction">>>>
amountFields == <<<<"Amount">>, <<"Transaction", "Amount">>, <<"Debit">>,
                  <<"Credit">>, <<"amount">>>>

\* The date of the first date field that is non-empty and parses.
RECURSIVE findDate(_, _)
findDate(row, i) ==
  IF i > Len(allDateFields) THEN NullDate
  ELSE IF get(row, allDateFields[i]) # Empty
            /\ parseDate(get(row, allDateFields[i])) # NullDate
       THEN parseDate(get(row, allDateFields[i]))
       ELSE findDate(row, i + 1)

\* The trimmed value of the first description field that is non-empty after trim.
RECURSIVE findDescription(_, _)
findDescription(row, i) ==
  IF i > Len(allDescriptionFields) THEN Empty
  ELSE IF get(row, allDescriptionFields[i]) # Empty
            /\ trim(get(row, allDescriptionFields[i])) # Empty
       THEN trim(get(row, allDescriptionFields[i]))
       ELSE findDescription(row, i + 1)

\* The fallback over the amount fields: the first that parses to a number
\* other than zero; 0 when there is none.
RECURSIVE findAmount(_, _)
findAmount(row, i) ==
  IF i > Len(amountFields) THEN 0
  ELSE IF get(row, amountFields[i]) # Empty
            /\ ~isNaN(parseAmount(get(row, amountFields[i])))
            /\ parseAmount(get(row, amountFields[i])) # 0
       THEN parseAmount(get(row, amountFields[i]))
       ELSE findAmount(row, i + 1)

\* A non-empty Debit gives -|Debit|, else a non-empty Credit gives |Credit|,
\* else the fallback; the Debit and Credit values are used as parsed.
amountOf(row) ==
  IF get(row, <<"Debit">>) # Empty
  THEN negate(abs(parseAmount(get(row, <<"Debit">>))))
  ELSE IF get(row, <<"Credit">>) # Empty
       THEN abs(parseAmount(get(row, <<"Credit">>)))
       ELSE findAmount(row, 1)

\* The date, description and amount parseRowsWithHeaders finds in a row.
fieldsWithHeaders(row) ==
  [date |-> findDate(row, 1), description |-> findDescription(row, 1),
   amount |-> amountOf(row)]

\* `if (date && description && amount !== 0)`
buildable(fields) ==
  fields.date # NullDate /\ fields.description # Empty /\ fields.amount # 0

\* The transaction object pushed for a buildable row.
buildTransaction(fields) ==
  [date |-> fields.date, description |-> fields.description, amount |-> fields.amount,
   merchantName |-> merchantNameOf(fields.description)]

parseRowsWithHeaders_StopAtBadRow(rows) ==
  IF rows = <<>> \/ ~buildable(fieldsWithHeaders(Head(rows))) THEN <<>>
  ELSE <<buildTransaction(fieldsWithHeaders(Head(rows)))>>

\* rows.forEach: every row on its own, a transaction pushed for each
\* buildable one, in the order of the rows.
RECURSIVE parseRowsWithHeaders(_)
parseRowsWithHeaders(rows) ==
  IF rows = <<>> THEN <<>>
  ELSE (IF buildable(fieldsWithHeaders(Head(rows)))
        THEN <<buildTransaction(fieldsWithHeaders(Head(rows)))>> ELSE <<>>)
       \o parseRowsWithHeaders(Tail(rows))

\* Positional pattern: first value the date, second the amount, fifth the
\* description; rows with fewer than five values give nothing.
fieldsWithoutHeaders(row) ==
  IF Len(row) >= 5
  THEN [date |-> parseDate(row[1].value), description |-> row[5].value,
        amount |-> parseAmount(row[2].value)]
  ELSE [date |-> NullDate, description |-> Empty, amount |-> 0]

\* `if (date && description && !isNaN(amount) && amount !== 0)`
buildablePositional(fields) ==
  /\ fields.date # NullDate /\ fields.description # Empty
  /\ ~isNaN(fields.amount) /\ fields.amount # 0

RECURSIVE parseRowsWithoutHeaders(_)
parseRowsWithoutHeaders(rows) ==
  IF rows = <<>> THEN <<>>
  ELSE (IF buildablePositional(fieldsWithoutHeaders(Head(rows)))
        THEN <<buildTransaction(fieldsWithoutHeaders(Head(rows)))>> ELSE <<>>)
       \o parseRowsWithoutHeaders(Tail(rows))

\* parseCSV: nothing for a file without a row after its first line, else
\* one of the two row parsers, chosen by hasHeaders.
parseCSV(f) ==
  IF csvParser(f.lines) = <<>> THEN <<>>
  ELSE IF hasHeaders(csvParser(f.lines))
       THEN parseRowsWithHeaders(csvParser(f.lines))
       ELSE parseRowsWithoutHeaders(csvParser(f.lines))

\* parsePDF of working-server.ts resolves to [] on every path.
parsePDF(f) == <<>>

\* ------------------------------------------- the other parser modules
\* The parser module (parseStatementFile) and the class StatementParser
\* each have a parseCSVRow of their own; what follows is the amount each of
\* them gives a row object.  parseAmount of the parser module is the
\* function of the server, letter for letter.
parser_amountFields == <<<<"Amount">>, <<"Transaction", "Amount">>, <<"Debit">>,
                         <<"Credit">>, <<"amount">>, <<"AMOUNT">>>>

\* `for (const field of amountFields)` of the parser module: the first
\* field that parses to a number other than zero, as parsed; 0 when none.
RECURSIVE parser_findAmount(_, _)
parser_findAmount(row, i) ==
  IF i > Len(parser_amountFields) THEN 0
  ELSE IF get(row, parser_amountFields[i]) # Empty
            /\ ~isNaN(parseAmount(get(row, parser_amountFields[i])))
            /\ parseAmount(get(row, parser_amountFields[i])) # 0
       THEN parseAmount(get(row, parser_amountFields[i]))
       ELSE parser_findAmount(row, i + 1)

\* `row['Debit'] || row['debit'] || row['DEBIT']` and the same for Credit.
firstOf(row, fields) ==
  IF get(row, fields[1]) # Empty THEN get(row, fields[1])
  ELSE IF get(row, fields[2]) # Empty THEN get(row, fields[2])
       ELSE get(row, fields[3])

\* The block `if (amount === 0)`: a numeric debit gives -|debit|, a numeric
\* credit then overwrites it with |credit|.
parser_debitCredit(row) ==
  LET debit == firstOf(row, <<<<"Debit">>, <<"debit">>, <<"DEBIT">>>>)
      credit == firstOf(row, <<<<"Credit">>, <<"credit">>, <<"CREDIT">>>>)
      afterDebit == IF debit # Empty /\ ~isNaN(parseAmount(debit))
                    THEN negate(abs(parseAmount(debit))) ELSE 0
  IN IF credit # Empty /\ ~isNaN(parseAmount(credit))
     THEN abs(parseAmount(credit)) ELSE afterDebit

\* The amount of parseCSVRow of the parser module.
parser_amountOf(row) ==
  IF parser_findAmount(row, 1) = 0 THEN parser_debitCredit(row)
  ELSE parser_findAmount(row, 1)

\* StatementParser.parseAmount on the cells of the alphabet: parseFloat
\* after '$' and ',' are removed; an opening parenthesis is not a number.
StatementParser_parseAmount(cell) ==
  CASE cell = <<"-89.45">> -> -8945
    [] cell = <<"-45.67">> -> -4567
    [] cell = <<"-29.99">> -> -2999
    [] cell = <<"29.99">> -> 2999
    [] cell = <<"0.00">> -> 0
    [] cell = <<"89.45">> -> 8945
    [] cell = <<"45.67">> -> 4567
    [] OTHER -> NaN

StatementParser_amountFields == <<<<"Amount">>, <<"Transaction", "Amount">>,
                                  <<"Debit">>, <<"Credit">>, <<"amount">>>>

\* The amount of StatementParser.parseCSVRow: the first field that parses
\* to a number, as parsed; 0 when none.
RECURSIVE StatementParser_findAmount(_, _)
StatementParser_findAmount(row, i) ==
  IF i > Len(StatementParser_amountFields) THEN 0
  ELSE IF get(row, StatementParser_amountFields[i]) # Empty
            /\ ~isNaN(StatementParser_parseAmount(get(row, StatementParser_amountFields[i])))
       THEN StatementParser_parseAmount(get(row, StatementParser_amountFields[i]))
       ELSE StatementParser_findAmount(row, i + 1)

\* The amount each of the three row parsers gives every row object of a file.
rowAmounts(lines) ==
  [i \in 1..Len(csvParser(lines)) |->
     [server |-> IF hasHeaders(csvParser(lines))
                 THEN amountOf(csvParser(lines)[i])
                 ELSE fieldsWithoutHeaders(csvParser(lines)[i]).amount,
      parser |-> parser_amountOf(csvParser(lines)[i]),
      statementParser |-> StatementParser_findAmount(csvParser(lines)[i], 1)]]

\* ------------------------------------------------ lines of PDF text
\* A line of the text of a PDF is the sequence of its space-separated
\* words.  Every line of the alphabet that has a date has a number in a
\* later word.
PdfPurchase == <<"07/28/2024", "Walmart", "Supercenter", "89.45">>
PdfCardPayment == <<"07/25/2024", "Credit", "Card", "Payment", "29.99">>
PdfPaymentUpperCase == <<"07/26/2024", "PAYMENT", "THANK", "YOU", "$45.67">>
PdfDollarSign == <<"07/27/2024", "Shell", "Gas", "Station", "$45.67">>
PdfNoDate == <<"Statement", "Period">>
PdfTrailingText == <<"07/26/2024", "Refund", "29.99", "CR">>

PdfLines == {PdfPurchase, PdfCardPayment, PdfPaymentUpperCase, PdfDollarSign,
             PdfNoDate, PdfTrailingText}

\* null, as a record of the shape of a transaction.
NullTransaction == [date |-> NullDate, description |-> Empty, amount |-> 0]

\* The words of the alphabet the date patterns match.
isDateWord(word) ==
  word \in {"07/28/2024", "07/27/2024", "07/26/2024", "07/25/2024"}

\* Group 1 of /[\$]?([\d,]+\.?\d{0,2})/ in a word that is not a date: the
\* digits without the dollar sign; "" when the word has no digit.
amountGroup(word) ==
  CASE word = "89.45" -> "89.45"
    [] word = "29.99" -> "29.99"
    [] word = "$45.67" -> "45.67"
    [] OTHER -> ""

\* String.prototype.includes of the lowercase line for 'payment' and 'credit'.
tokensInWord(word) ==
  CASE word = "payment" -> {"payment"}
    [] word = "credit" -> {"credit"}
    [] OTHER -> {}

lineIncludes(line, token) ==
  \E i \in DOMAIN line : token \in tokensInWord(toLowerCase(line)[i])

firstDateWord(line) == CHOOSE i \in DOMAIN line :
  isDateWord(line[i]) /\ \A j \in 1..(i - 1) : ~isDateWord(line[j])

lastAmountWord(line) == CHOOSE i \in DOMAIN line :
  amountGroup(line[i]) # "" /\ \A j \in (i + 1)..Len(line) : amountGroup(line[j]) = ""

\* StatementParser.parsePDFLine: the first date of the line, the last number
\* of the line, the text between the two as description (the rest of the
\* line when there is none); the sign by the words 'payment' and 'credit'.
\* StatementParser.parseDate gives the dates of the alphabet the value
\* parseDate of the server gives them.
StatementParser_parsePDFLine(line) ==
  IF ~\E i \in DOMAIN line : isDateWord(line[i]) THEN NullTransaction
  ELSE LET d == firstDateWord(line)
           a == lastAmountWord(line)
           amount == StatementParser_parseAmount(<<amountGroup(line[a])>>)
           between == SubSeq(line, d + 1, a - 1)
           description == IF between # <<>> THEN between
                          ELSE SubSeq(line, 1, d - 1) \o SubSeq(line, a + 1, Len(line))
       IN IF parseDate(<<line[d]>>) = NullDate \/ isNaN(amount) \/ amount = 0
             \/ description = <<>> \/ description = <<"CR">>
          THEN NullTransaction
          ELSE [date |-> parseDate(<<line[d]>>), description |-> description,
                amount |-> IF lineIncludes(line, "payment") \/ lineIncludes(line, "credit")
                           THEN amount ELSE -amount]

\* parsePDFLine of the parser module: a date, a description and, as the last
\* word of the line, a number; `amount > 0 ? -amount : amount`.
parser_parsePDFLine(line) ==
  IF ~\E i \in DOMAIN line : isDateWord(line[i]) THEN NullTransaction
  ELSE LET d == firstDateWord(line)
           amount == parseAmount(<<amountGroup(line[Len(line)])>>)
           description == SubSeq(line, d + 1, Len(line) - 1)
       IN IF amountGroup(line[Len(line)]) = "" \/ parseDate(<<line[d]>>) = NullDate
             \/ isNaN(amount) \/ amount = 0 \/ description = <<>>
          THEN NullTransaction
          ELSE [date |-> parseDate(<<line[d]>>), description |-> description,
                amount |-> IF amount > 0 THEN -amount ELSE amount]

\* ------------------------------------------------------ written dates
\* A date string given to parseDate directly: the format its digits and
\* separators match ("text" when they match none, as in 'N/A') and the
\* numbers written in the month, day and year groups.  Years are written
\* with four digits and are 1000 or more.
DateShapes == {"MM/DD/YYYY", "YYYY-MM-DD"}
WrittenMonths == {0, 1, 2, 12, 13}
WrittenDays == {0, 1, 28, 29, 30, 31, 32, 45}
WrittenYears == {1899, 1900, 1901, 2024, 2099, 2100}
NotADate == [shape |-> "text", month |-> 0, day |-> 0, year |-> 0]
DateStrings ==
  {[shape |-> s, month |-> m, day |-> d, year |-> y] :
     s \in DateShapes, m \in WrittenMonths, d \in WrittenDays, y \in WrittenYears}
  \cup {NotADate}

\* null and the invalid Date.
NoDate == [year |-> 0, month |-> 0, day |-> 0]

isLeapYear(y) == (y % 4 = 0 /\ y % 100 # 0) \/ y % 400 = 0
daysInMonth(y, m) ==
  IF m = 2 THEN (IF isLeapYear(y) THEN 29 ELSE 28)
  ELSE IF m \in {4, 6, 9, 11} THEN 30 ELSE 31

\* The day d of month m (1..12) of year y, d counted past either end of the month.
RECURSIVE dayOfMonth(_, _, _)
dayOfMonth(y, m, d) ==
  IF d > daysInMonth(y, m)
  THEN (IF m = 12 THEN dayOfMonth(y + 1, 1, d - daysInMonth(y, m))
        ELSE dayOfMonth(y, m + 1, d - daysInMonth(y, m)))
  ELSE IF d < 1
       THEN (IF m = 1 THEN dayOfMonth(y - 1, 12, d + 31)
             ELSE dayOfMonth(y, m - 1, d + daysInMonth(y, m - 1)))
       ELSE [year |-> y, month |-> m, day |-> d]

\* new Date(year, monthIndex, day), in local time: a month index outside
\* 0..11 and a day outside the month carry over into the neighbouring
\* months and years.
NewDate(year, monthIndex, day) ==
  dayOfMonth(year + (monthIndex \div 12), (monthIndex % 12) + 1, day)

\* parseDate of working-server.ts: a string that matches a format gives the
\* Date built from its groups, whatever the groups hold; any other string
\* goes to new Date(dateStr), which is invalid for the text of the alphabet.
server_parseDate(text) ==
  IF text.shape \in DateShapes THEN NewDate(text.year, text.month - 1, text.day)
  ELSE NoDate

\* StatementParser.parseDate: the same without the fallback.
StatementParser_parseDate(text) ==
  IF text.shape \in DateShapes THEN NewDate(text.year, text.month - 1, text.day)
  ELSE NoDate

\* isValidDate of the parser module.
isValidDate(date) == date # NoDate /\ date.year > 1900 /\ date.year < 2100

\* new Date(dateStr) for a string of the alphabet.  YYYY-MM-DD is read as
\* midnight UTC, which west of Greenwich is the evening before in local
\* time; MM/DD/YYYY is read in local time.  A month outside 1..12 or a day
\* outside 1..31 gives the invalid Date.
builtinDate(text, west) ==
  IF text.shape \notin DateShapes \/ text.month \notin 1..12 \/ text.day \notin 1..31
  THEN NoDate
  ELSE IF text.shape = "YYYY-MM-DD" /\ west
       THEN dayOfMonth(text.year, text.month, text.day - 1)
       ELSE dayOfMonth(text.year, text.month, text.day)

\* parseDate of the parser module: the Date built from the groups if
\* isValidDate accepts it, else new Date(dateStr) if isValidDate accepts that.
parser_parseDate(text, west) ==
  IF text.shape \in DateShapes
       /\ isValidDate(NewDate(text.year, text.month - 1, text.day))
  THEN NewDate(text.year, text.month - 1, text.day)
  ELSE IF isValidDate(builtinDate(text, west)) THEN builtinDate(text, west)
       ELSE NoDate

\* ---------------------------------------------------- written amounts
\* An amount string given to parseAmount directly is the sequence of its
\* parts: '$', ',', ' ', '(', ')', a sign, a run of digits with or without
\* decimal point, or text that is no number.
Digits == {"45.67", "0.00", "1", "234.56"}
AmountPrefixes == {<<>>, <<"-">>, <<"+">>, <<"$">>, <<"-", "$">>, <<"$", "-">>, <<"(">>,
                   <<"(", "$">>, <<"(", "-">>, <<" ">>, <<"-", " ">>, <<"$", " ">>,
                   <<"(", " ">>}
AmountNumbers == {<<"45.67">>, <<"1", ",", "234.56">>, <<"0.00">>, <<"N/A">>}
AmountSuffixes == {<<>>, <<")">>, <<" ">>, <<" ", ")">>}
AmountStrings ==
  {pre \o num \o post : pre \in AmountPrefixes, num \in AmountNumbers,
                        post \in AmountSuffixes}

\* String.prototype.replace(/[...]/g, '') for a class of one-character parts.
without(text, parts) == SelectSeq(text, LAMBDA part : part \notin parts)

\* The value, in cents, of the digits of the alphabet written one after the other.
valueOfDigits(digits) ==
  CASE digits = <<"45.67">> -> 4567
    [] digits = <<"0.00">> -> 0
    [] digits = <<"1">> -> 100
    [] digits = <<"234.56">> -> 23456
    [] digits = <<"1", "234.56">> -> 123456
    [] OTHER -> NaN

\* The longest prefix of the text that consists of digits.
RECURSIVE leadingDigits(_)
leadingDigits(text) ==
  IF text = <<>> \/ Head(text) \notin Digits THEN <<>>
  ELSE <<Head(text)>> \o leadingDigits(Tail(text))

\* The text without its leading white space.
RECURSIVE trimStart(_)
trimStart(text) ==
  IF text # <<>> /\ Head(text) = " " THEN trimStart(Tail(text)) ELSE text

\* parseFloat: leading white space is skipped, then an optional sign and the
\* digits that follow it are read, whatever comes after them; NaN when no
\* digit follows.
parseFloat(text) ==
  LET rest == trimStart(text)
  IN IF rest # <<>> /\ Head(rest) = "-"
     THEN negate(valueOfDigits(leadingDigits(Tail(rest))))
     ELSE IF rest # <<>> /\ Head(rest) = "+"
          THEN valueOfDigits(leadingDigits(Tail(rest)))
          ELSE valueOfDigits(leadingDigits(rest))

hasPart(text, part) == \E i \in DOMAIN text : text[i] = part

\* parseAmount of working-server.ts on a written amount.
server_parseAmount(text) ==
  LET cleanAmount == without(text, {"$", ",", " "})
  IN IF hasPart(cleanAmount, "(") /\ hasPart(cleanAmount, ")")
     THEN negate(abs(parseFloat(without(cleanAmount, {"(", ")"}))))
     ELSE parseFloat(cleanAmount)

\* parseAmount of the parser module on a written amount.
parser_parseAmount(text) ==
  LET cleanAmount == without(text, {"$", ",", " "})
  IN IF hasPart(cleanAmount, "(") /\ hasPart(cleanAmount, ")")
     THEN negate(abs(parseFloat(without(cleanAmount, {"(", ")"}))))
     ELSE parseFloat(cleanAmount)

\* StatementParser.parseAmount on a written amount.
StatementParser_parseAmountText(text) == parseFloat(without(text, {"$", ","}))

\* ---------------------------------------------------- format detection
isPdf(f) == f.magic
isLikelyCsv(f) == f.ext = "csv" \/ f.comma

detectStrategy(f) ==
  IF isLikelyCsv(f) \/ f.ext = "csv" THEN "csv"
  ELSE IF isPdf(f) \/ f.ext = "pdf" THEN "pdf"
  ELSE "unsupported"

\* ------------------------------------------------------------------ state
VARIABLES
  pc,             \* position of each request's handler
  file,           \* req.file
  sourceId,       \* target source of the upload
  txs,            \* the handler's `transactions` array
  idx,            \* position of the store loop in txs
  storedCount,    \* storedCount
  duplicateCount, \* duplicateCount
  error,          \* message of the exception the catch block handles
  response,       \* response sent to the caller
  uploaded_files, \* table uploaded_files, one row per request
  transactions,   \* table transactions, in insertion order
  tempFile,       \* whether the multer temp file of the request exists
  faults,         \* persistence operations that raised so far
  strategy,       \* history: strategy chosen by format detection
  outcome,        \* history: what happened to each transaction of the batch
  dbError,        \* history: a persistence operation of the request raised
  solo,           \* history: no other request was in flight during this one
  prevOf,         \* history: the upload that completed just before this one began
  lastDone,       \* history: the upload that completed last
  startStore,     \* history: table transactions when the request arrived
  endStore,       \* history: table transactions when the request ended
  categories,     \* table categories (ids)
  call,           \* a direct call of a function of the module, with its arguments
  category,       \* what categorizeTransaction returned to the call
  parsed,         \* what parseCSV did for the call
  body,           \* the counts in the JSON body of the success response
  returned,       \* what the other functions returned to the call
  loadedCategories, \* TransactionCategorizer: the keys of this.categories
  loadState,      \* TransactionCategorizer: where loadCategories() is
  answers,        \* TransactionCategorizer: the calls answered so far
  recategorize,   \* the frame of the recategorize handler, "idle" between runs
  runs,           \* history: the recategorize runs that have ended
  edits,          \* number of category edits made so far
  connection,     \* Database: the sqlite connection and the table as seen on it
  bulk            \* TransactionService: the frame of each bulkCreateTransactions call

vars == <<pc, file, sourceId, txs, idx, storedCount, duplicateCount, error,
          response, uploaded_files, transactions, tempFile, faults, strategy,
          outcome, dbError, solo, prevOf, lastDone, startStore, endStore,
          categories, call, category, parsed, body, returned,
          loadedCategories, loadState, answers, recategorize, runs, edits,
          connection, bulk>>

categorizerVars == <<loadedCategories, loadState, answers>>

\* The state outside the upload handler and the first two direct calls.
recategorizeVars == <<recategorize, runs, edits>>

bulkVars == <<connection, bulk>>

restVars == <<recategorizeVars, bulkVars>>

serviceVars == <<returned, categorizerVars, restVars>>

\* The variables of the upload handler other than the table and the faults.
uploadVars == <<pc, file, sourceId, txs, idx, storedCount, duplicateCount, error,
                response, uploaded_files, tempFile, strategy, outcome, dbError,
                solo, prevOf, lastDone, startStore, endStore, body>>

requestVars == <<pc, file, sourceId, txs, idx, storedCount, duplicateCount, error,
                 response, uploaded_files, transactions, tempFile, faults, strategy,
                 outcome, dbError, solo, prevOf, lastDone, startStore, endStore,
                 body>>

\* The default categories inserted at startup.
SeedCategories ==
  {"groceries", "restaurants", "gas", "shopping", "utilities", "entertainment",
   "healthcare", "transport", "travel", "fitness", "education", "subscriptions",
   "bills", "personal_care", "home_garden", "other"}

NoCall == [fn |-> "none"]
NotParsed == [done |-> FALSE, hasHeaders |-> FALSE, transactions |-> <<>>,
              rowAmounts |-> <<>>]

NotReturned == [done |-> FALSE]

\* No recategorize run is under way and none has ended.
IdleFrame == [pc |-> "idle", rows |-> <<>>, idx |-> 0, updatedCount |-> 0,
              unchangedCount |-> 0, readTable |-> <<>>, expected |-> <<>>,
              undisturbed |-> FALSE]
NoRecategorize ==
  /\ recategorize = IdleFrame
  /\ runs = <<>>
  /\ edits = 0

\* Calls of TransactionService.bulkCreateTransactions in one behaviour, and
\* the positions of the transactions in the array each is given.
MaxBatches == 2
Batches == 1..MaxBatches
Items == 1..2

\* The arrays given to bulkCreateTransactions: for each transaction, whether
\* the table takes it (a transaction without description, say, breaks a NOT
\* NULL constraint of schema.sql, and its INSERT fails).
BatchInputs == {<<TRUE, TRUE>>, <<TRUE, FALSE>>}

\* The connection outside a transaction, table transactions empty, and no
\* call of bulkCreateTransactions made.
NoBulk ==
  /\ connection = [rows |-> <<>>, inTransaction |-> FALSE, savepoint |-> <<>>]
  /\ bulk = [b \in Batches |-> [pc |-> "idle", batch |-> <<>>, idx |-> 0, results |-> 0]]

\* No TransactionCategorizer has been constructed.
NoCategorizer ==
  /\ loadedCategories = {}
  /\ loadState = "none"
  /\ answers = <<>>

NoBody == [transactionCount |-> 0, duplicateCount |-> 0]

NoRecord == [status |-> "none", source_id |-> "", transactions_count |-> 0,
             processed_count |-> 0, duplicate_count |-> 0, error_message |-> ""]

\* No request has arrived yet.
NoRequests ==
  /\ pc = [u \in Uploads |-> "idle"]
  /\ file = [u \in Uploads |-> NoFile]
  /\ sourceId = [u \in Uploads |-> ""]
  /\ txs = [u \in Uploads |-> <<>>]
  /\ idx = [u \in Uploads |-> 0]
  /\ storedCount = [u \in Uploads |-> 0]
  /\ duplicateCount = [u \in Uploads |-> 0]
  /\ error = [u \in Uploads |-> ""]
  /\ response = [u \in Uploads |-> "none"]
  /\ uploaded_files = [u \in Uploads |-> NoRecord]
  /\ transactions = <<>>
  /\ tempFile = [u \in Uploads |-> FALSE]
  /\ faults = 0
  /\ strategy = [u \in Uploads |-> "none"]
  /\ outcome = [u \in Uploads |-> <<>>]
  /\ dbError = [u \in Uploads |-> FALSE]
  /\ solo = [u \in Uploads |-> FALSE]
  /\ prevOf = [u \in Uploads |-> 0]
  /\ lastDone = 0
  /\ startStore = [u \in Uploads |-> <<>>]
  /\ endStore = [u \in Uploads |-> <<>>]
  /\ body = [u \in Uploads |-> NoBody]

\* The server after startup: schema created, categories seeded.
Init ==
  /\ NoRequests
  /\ categories = SeedCategories
  /\ call = NoCall
  /\ category = ""
  /\ parsed = NotParsed
  /\ returned = NotReturned
  /\ NoCategorizer
  /\ NoRecategorize
  /\ NoBulk

Active == {u \in Uploads : pc[u] \notin {"idle", "done"}}

\* A persistence operation either returns (ok) or raises.
MayRaise(ok) ==
  /\ ok \/ faults < MaxFaults
  /\ faults' = IF ok THEN faults ELSE faults + 1

\* The request ends: the response is sent and the handler returns.
Finish(u, resp) ==
  /\ pc' = [pc EXCEPT ![u] = "done"]
  /\ response' = [response EXCEPT ![u] = resp]
  /\ lastDone' = u
  /\ endStore' = [endStore EXCEPT ![u] = transactions]

NextRow_RetrySameRow(u, raised) ==
  IF raised
  THEN /\ idx' = idx
       /\ pc' = [pc EXCEPT ![u] = "check"]
  ELSE /\ idx' = [idx EXCEPT ![u] = idx[u] + 1]
       /\ pc' = [pc EXCEPT ![u] = IF idx[u] < Len(txs[u]) THEN "check" ELSE "finalize"]

NextRow_AbortOnError(u, raised) ==
  IF raised
  THEN /\ idx' = idx
       /\ pc' = [pc EXCEPT ![u] = "catch"]
  ELSE /\ idx' = [idx EXCEPT ![u] = idx[u] + 1]
       /\ pc' = [pc EXCEPT ![u] = IF idx[u] < Len(txs[u]) THEN "check" ELSE "finalize"]

\* The loop moves on to the next transaction, or leaves the loop.  An
\* exception of the loop body is caught inside the loop and only logged, so
\* the loop moves on in the same way whether or not the row raised.
NextRow(u, raised) ==
  /\ idx' = [idx EXCEPT ![u] = idx[u] + 1]
  /\ pc' = [pc EXCEPT ![u] = IF idx[u] < Len(txs[u]) THEN "check" ELSE "finalize"]

\* The table as the duplicate query of request u sees it: the query is
\* awaited, and issued only after the previous row's INSERT was awaited, so
\* it reads the table as it is when the step runs.
visibleStore_AtArrival(u) == startStore[u]

visibleStore(u) == transactions

\* SELECT COUNT(*) FROM transactions WHERE description = ? AND amount = ? AND date = ?
countMatching(tx, store) ==
  Cardinality({i \in 1..Len(store) :
                 /\ store[i].description = tx.description
                 /\ store[i].amount = tx.amount
                 /\ store[i].date = tx.date})

isDuplicate_Never(tx, store) == FALSE

isDuplicate_MoreThanOne(tx, store) == countMatching(tx, store) > 1

isDuplicate(tx, store) == countMatching(tx, store) > 0

storedRow_AbsAmount(tx, source) ==
  [amount |-> IF tx.amount < 0 THEN -tx.amount ELSE tx.amount,
   description |-> tx.description,
   merchant_name |-> tx.merchantName, date |-> tx.date,
   category_id |-> categorizeTransaction(tx.description, tx.merchantName),
   source_id |-> source]

\* The row the INSERT INTO transactions writes.
storedRow(tx, source) ==
  [amount |-> tx.amount, description |-> tx.description,
   merchant_name |-> tx.merchantName, date |-> tx.date,
   category_id |-> categorizeTransaction(tx.description, tx.merchantName),
   source_id |-> source]

canRead_Always(f) == TRUE

\* fs.readFileSync(file.path) returns; it throws for a temp file that cannot
\* be read, which takes the handler to its catch block.
canRead(f) == f.readable

\* --------------------------------------------------------------- actions
\* A request with a file arrives and runs up to the store loop: multer has
\* written the temp file, the handler picks the source, the INSERT of the
\* file record returns or raises, the temp file is read, the format detected
\* and the file parsed.  These awaits touch only the request's own file
\* record and temp file, which no other request reads, so they are taken as
\* one step.
Receive(u, f, bodySource, ok) ==
  /\ pc[u] = "idle"
  /\ \A v \in Uploads : v < u => pc[v] # "idle"
  /\ MayRaise(ok)
  /\ file' = [file EXCEPT ![u] = f]
  /\ sourceId' = [sourceId EXCEPT ![u] =
                    IF bodySource = "" THEN "default_credit_card" ELSE bodySource]
  /\ tempFile' = [tempFile EXCEPT ![u] = TRUE]
  /\ solo' = [v \in Uploads |-> IF v = u THEN Active = {}
                                ELSE IF v \in Active THEN FALSE ELSE solo[v]]
  /\ prevOf' = [prevOf EXCEPT ![u] = IF Active = {} THEN lastDone ELSE 0]
  /\ startStore' = [startStore EXCEPT ![u] = transactions]
  /\ IF ~ok
     THEN /\ pc' = [pc EXCEPT ![u] = "catch"]
          /\ error' = [error EXCEPT ![u] = "persistence error"]
          /\ dbError' = [dbError EXCEPT ![u] = TRUE]
          /\ UNCHANGED <<uploaded_files, strategy, txs, idx, response, lastDone, endStore>>
     ELSE /\ uploaded_files' = [uploaded_files EXCEPT ![u] =
                 [NoRecord EXCEPT !.status = "processing",
                                  !.source_id = sourceId'[u]]]
          /\ UNCHANGED dbError
          /\ IF ~canRead(f)
             THEN /\ pc' = [pc EXCEPT ![u] = "catch"]
                  /\ error' = [error EXCEPT ![u] = "ENOENT"]
                  /\ UNCHANGED <<strategy, txs, idx, response, lastDone, endStore>>
             ELSE /\ strategy' = [strategy EXCEPT ![u] = detectStrategy(f)]
                  /\ UNCHANGED error
                  /\ IF detectStrategy(f) = "unsupported"
                     THEN /\ Finish(u, "400 Unsupported file type")
                          /\ UNCHANGED <<txs, idx>>
                     ELSE LET t == IF detectStrategy(f) = "csv"
                                   THEN parseCSV(f) ELSE parsePDF(f) IN
                          /\ txs' = [txs EXCEPT ![u] = t]
                          /\ IF Len(t) = 0
                             THEN /\ Finish(u, "400 No transactions found")
                                  /\ UNCHANGED idx
                             ELSE /\ pc' = [pc EXCEPT ![u] = "check"]
                                  /\ idx' = [idx EXCEPT ![u] = 1]
                                  /\ UNCHANGED <<response, lastDone, endStore>>
  /\ UNCHANGED <<storedCount, duplicateCount, transactions, outcome>>
  /\ UNCHANGED <<categories, call, category, parsed, body, serviceVars>>

\* A request without a file: 400 before anything is created.
NoFileUploaded(u) ==
  /\ pc[u] = "idle"
  /\ \A v \in Uploads : v < u => pc[v] # "idle"
  /\ pc' = [pc EXCEPT ![u] = "done"]
  /\ response' = [response EXCEPT ![u] = "400 No file uploaded"]
  /\ UNCHANGED <<file, sourceId, txs, idx, storedCount, duplicateCount, error,
                 uploaded_files, transactions, tempFile, faults, strategy,
                 outcome, dbError, solo, prevOf, startStore, lastDone, endStore>>
  /\ UNCHANGED <<categories, call, category, parsed, body, serviceVars>>

\* The duplicate query of the current transaction returns or raises.
CheckDuplicate(u, ok) ==
  /\ pc[u] = "check"
  /\ MayRaise(ok)
  /\ IF ~ok
     THEN /\ outcome' = [outcome EXCEPT ![u] = Append(outcome[u], "error")]
          /\ dbError' = [dbError EXCEPT ![u] = TRUE]
          /\ NextRow(u, TRUE)
          /\ UNCHANGED duplicateCount
     ELSE IF isDuplicate(txs[u][idx[u]], visibleStore(u))
          THEN /\ duplicateCount' = [duplicateCount EXCEPT ![u] = duplicateCount[u] + 1]
               /\ outcome' = [outcome EXCEPT ![u] = Append(outcome[u], "duplicate")]
               /\ NextRow(u, FALSE)
               /\ UNCHANGED dbError
          ELSE /\ pc' = [pc EXCEPT ![u] = "insert"]
               /\ UNCHANGED <<idx, duplicateCount, outcome, dbError>>
  /\ UNCHANGED <<file, sourceId, txs, storedCount, error, response,
                 uploaded_files, transactions, tempFile, strategy, solo,
                 prevOf, startStore, lastDone, endStore>>
  /\ UNCHANGED <<categories, call, category, parsed, body, serviceVars>>

rowAccepted_UniqueKey(tx, ok) == ok /\ countMatching(tx, transactions) = 0

\* Whether the INSERT stores the row: table transactions has no constraint
\* on (description, amount, date), its only key is the generated id, so the
\* row is stored whenever the database operation itself succeeds.
rowAccepted(tx, ok) == ok

\* The INSERT INTO transactions of the current transaction returns or raises.
InsertTransaction(u, ok) ==
  /\ pc[u] = "insert"
  /\ MayRaise(ok)
  /\ IF rowAccepted(txs[u][idx[u]], ok)
     THEN /\ transactions' = Append(transactions, storedRow(txs[u][idx[u]], sourceId[u]))
          /\ storedCount' = [storedCount EXCEPT ![u] = storedCount[u] + 1]
          /\ outcome' = [outcome EXCEPT ![u] = Append(outcome[u], "inserted")]
          /\ UNCHANGED dbError
     ELSE /\ outcome' = [outcome EXCEPT ![u] = Append(outcome[u], "error")]
          /\ dbError' = [dbError EXCEPT ![u] = TRUE]
          /\ UNCHANGED <<transactions, storedCount>>
  /\ NextRow(u, ~rowAccepted(txs[u][idx[u]], ok))
  /\ UNCHANGED <<file, sourceId, txs, duplicateCount, error, response,
                 uploaded_files, tempFile, strategy, solo, prevOf, startStore, lastDone,
                 endStore>>
  /\ UNCHANGED <<categories, call, category, parsed, body, serviceVars>>

\* The UPDATE that marks the file record completed returns or raises; on
\* return the temp file is unlinked and the success response is sent.
Complete(u, ok) ==
  /\ pc[u] = "finalize"
  /\ MayRaise(ok)
  /\ IF ok
     THEN /\ uploaded_files' = [uploaded_files EXCEPT ![u] =
                 [@ EXCEPT !.status = "completed",
                           !.transactions_count = Len(txs[u]),
                           !.processed_count = storedCount[u],
                           !.duplicate_count = duplicateCount[u]]]
          /\ tempFile' = [tempFile EXCEPT ![u] = FALSE]
          /\ body' = [body EXCEPT ![u] = [transactionCount |-> storedCount[u],
                                          duplicateCount |-> duplicateCount[u]]]
          /\ Finish(u, "200 success")
          /\ UNCHANGED <<error, dbError>>
     ELSE /\ pc' = [pc EXCEPT ![u] = "catch"]
          /\ error' = [error EXCEPT ![u] = "persistence error"]
          /\ dbError' = [dbError EXCEPT ![u] = TRUE]
          /\ UNCHANGED <<uploaded_files, tempFile, response, lastDone, endStore, body>>
  /\ UNCHANGED <<file, sourceId, txs, idx, storedCount, duplicateCount,
                 transactions, strategy, outcome, solo, prevOf, startStore>>
  /\ UNCHANGED <<categories, call, category, parsed, serviceVars>>

afterFailure_RolledBack(u) == startStore[u]

\* Table transactions after the catch block: the handler opens no database
\* transaction and the catch block has no DELETE, so the rows the request
\* has inserted stay.
afterFailure(u) == transactions

\* The catch block: the UPDATE that marks the file record failed returns or
\* raises (and is then only logged); the 500 response is sent.
HandleError(u, ok) ==
  /\ pc[u] = "catch"
  /\ MayRaise(ok)
  /\ uploaded_files' =
       IF ok /\ uploaded_files[u].status # "none"
       THEN [uploaded_files EXCEPT ![u] =
               [@ EXCEPT !.status = "failed", !.error_message = error[u]]]
       ELSE uploaded_files
  /\ dbError' = [dbError EXCEPT ![u] = dbError[u] \/ ~ok]
  /\ Finish(u, "500 File processing failed")
  /\ transactions' = afterFailure(u)
  /\ UNCHANGED <<file, sourceId, txs, idx, storedCount, duplicateCount, error,
                 tempFile, strategy, outcome, solo, prevOf, startStore>>
  /\ UNCHANGED <<categories, call, category, parsed, body, serviceVars>>

\* The steps a request in flight can take.
Step(u) ==
  \/ \E ok \in BOOLEAN : CheckDuplicate(u, ok)
  \/ \E ok \in BOOLEAN : InsertTransaction(u, ok)
  \/ \E ok \in BOOLEAN : Complete(u, ok)
  \/ \E ok \in BOOLEAN : HandleError(u, ok)

\* Requests arrive one after another: a request arrives when no other is in
\* flight.  Any file of the alphabet, any source.
Arrival(u) ==
  /\ Active = {}
  /\ \E f \in Files, bodySource \in SourceInputs, ok \in BOOLEAN :
       Receive(u, f, bodySource, ok)

Next ==
  \E u \in Uploads :
    \/ Arrival(u)
    \/ NoFileUploaded(u)
    \/ Step(u)

Spec == Init /\ [][Next]_vars

\* Requests overlap: a request may arrive while others are between two of
\* their awaits.  The files are the ones with transactions to store, and
\* the requests name no source, so that all go to the default one (the
\* duplicate query does not look at the source).
ConcurrentFiles == {FileRepeated, FileMissingAmount}
ConcurrentSources == {""}

ConcurrentArrival(u) ==
  /\ Cardinality(Active) < MaxActive
  /\ \E f \in ConcurrentFiles, bodySource \in ConcurrentSources, ok \in BOOLEAN :
       Receive(u, f, bodySource, ok)

NextConcurrent ==
  \E u \in Uploads :
    \/ ConcurrentArrival(u)
    \/ NoFileUploaded(u)
    \/ Step(u)

ConcurrentSpec == Init /\ [][NextConcurrent]_vars

\* Direct calls of the two pure functions of the module, on any description
\* and merchant name of the alphabet and on any delimited file of up to
\* MaxLines lines.
RECURSIVE LineSeqs(_)
LineSeqs(n) ==
  IF n = 0 THEN {<<>>}
  ELSE LineSeqs(n - 1) \cup
       {Append(ls, l) : ls \in {x \in LineSeqs(n - 1) : Len(x) = n - 1}, l \in Lines}

CsvFiles ==
  {[ext |-> "csv", magic |-> FALSE, comma |-> TRUE, readable |-> TRUE, lines |-> ls] :
     ls \in LineSeqs(MaxLines) \ {<<>>}}

Calls ==
  {[fn |-> "categorizeTransaction", description |-> d, merchantName |-> m] :
     d \in Descriptions, m \in Descriptions \cup {Empty}}
  \cup {[fn |-> "parseCSV", file |-> f] : f \in CsvFiles}
  \cup {[fn |-> "parsePDFLine", line |-> l] : l \in PdfLines}
  \cup {[fn |-> "parseDate", text |-> t, west |-> w] : t \in DateStrings, w \in BOOLEAN}
  \cup {[fn |-> "parseAmount", text |-> t] : t \in AmountStrings}

FunctionInit ==
  /\ NoRequests
  /\ categories = SeedCategories
  /\ call \in Calls
  /\ category = ""
  /\ parsed = NotParsed
  /\ returned = NotReturned
  /\ NoCategorizer
  /\ NoRecategorize
  /\ NoBulk

Categorize ==
  /\ call.fn = "categorizeTransaction"
  /\ category = ""
  /\ category' = categorizeTransaction(call.description, call.merchantName)
  /\ UNCHANGED <<requestVars, categories, call, parsed, serviceVars>>

ParseCsvFile ==
  /\ call.fn = "parseCSV"
  /\ ~parsed.done
  /\ parsed' = [done |-> TRUE,
                hasHeaders |-> csvParser(call.file.lines) # <<>>
                                 /\ hasHeaders(csvParser(call.file.lines)),
                transactions |-> parseCSV(call.file),
                rowAmounts |-> rowAmounts(call.file.lines)]
  /\ UNCHANGED <<requestVars, categories, call, category, serviceVars>>

\* One line of PDF text given to parsePDFLine of both modules that have one.
ParsePdfLine ==
  /\ call.fn = "parsePDFLine"
  /\ ~returned.done
  /\ returned' = [done |-> TRUE,
                  statementParser |-> StatementParser_parsePDFLine(call.line),
                  parser |-> parser_parsePDFLine(call.line)]
  /\ UNCHANGED <<requestVars, categories, call, category, parsed, categorizerVars, restVars>>

\* One date string given to parseDate of each of the three modules, on a
\* machine whose time zone is west of Greenwich or not.
ParseDateString ==
  /\ call.fn = "parseDate"
  /\ ~returned.done
  /\ returned' = [done |-> TRUE,
                  server |-> server_parseDate(call.text),
                  parser |-> parser_parseDate(call.text, call.west),
                  statementParser |-> StatementParser_parseDate(call.text)]
  /\ UNCHANGED <<requestVars, categories, call, category, parsed, categorizerVars, restVars>>

\* One amount string given to parseAmount of each of the three modules.
ParseAmountString ==
  /\ call.fn = "parseAmount"
  /\ ~returned.done
  /\ returned' = [done |-> TRUE,
                  server |-> server_parseAmount(call.text),
                  parser |-> parser_parseAmount(call.text),
                  statementParser |-> StatementParser_parseAmountText(call.text)]
  /\ UNCHANGED <<requestVars, categories, call, category, parsed, categorizerVars, restVars>>

NextFunction ==
  Categorize \/ ParseCsvFile \/ ParsePdfLine \/ ParseDateString \/ ParseAmountString

FunctionSpec == FunctionInit /\ [][NextFunction]_vars

\* The server that builds a TransactionCategorizer at startup.  The
\* constructor calls loadCategories() and returns without waiting for it, so
\* requests are served while the SELECT is pending; the SELECT resolves with
\* the rows of table categories or rejects.
MaxCalls == 2

\* Table categories of the database the server is started on: the default
\* categories of its schema, the same without 'gas', and no row.
DefaultCategories ==
  {"groceries", "restaurants", "gas", "shopping", "utilities", "entertainment",
   "healthcare", "transport", "travel", "other"}
CategoryTables == {DefaultCategories, DefaultCategories \ {"gas"}, {}}

CategorizerDescriptions == {Walmart, Shell, Venmo, VegasParking}
CategorizerMerchants == {Empty, AmazonPrime}

\* `new TransactionCategorizer(db)` has returned.
CategorizerInit ==
  /\ NoRequests
  /\ categories \in CategoryTables
  /\ call = NoCall
  /\ category = ""
  /\ parsed = NotParsed
  /\ returned = NotReturned
  /\ loadedCategories = {}
  /\ loadState = "pending"
  /\ answers = <<>>
  /\ NoRecategorize
  /\ NoBulk

\* The SELECT of loadCategories resolves: clear(), then set() for every row.
LoadCompletes ==
  /\ loadState = "pending"
  /\ loadedCategories' = categories
  /\ loadState' = "loaded"
  /\ UNCHANGED <<requestVars, categories, call, category, parsed, restVars, returned, answers>>

\* The SELECT rejects: the catch block logs, this.categories stays as it is.
LoadFails ==
  /\ loadState = "pending"
  /\ loadState' = "failed"
  /\ UNCHANGED <<requestVars, categories, call, category, parsed, restVars, returned,
                 loadedCategories, answers>>

\* A caller awaits categorizer.categorizeTransaction(description, merchantName);
\* the method has no await inside.
CategorizerCall ==
  /\ Len(answers) < MaxCalls
  /\ \E d \in CategorizerDescriptions, m \in CategorizerMerchants :
       answers' = Append(answers,
         [description |-> d, merchantName |-> m, loadState |-> loadState,
          map |-> loadedCategories,
          categoryId |-> TransactionCategorizer_categorizeTransaction(d, m, loadedCategories)])
  /\ UNCHANGED <<requestVars, categories, call, category, parsed, restVars, returned,
                 loadedCategories, loadState>>

NextCategorizer == LoadCompletes \/ LoadFails \/ CategorizerCall

CategorizerSpec == CategorizerInit /\ [][NextCategorizer]_vars

\* The server with its three endpoints that write category_id: uploads,
\* one after another, PUT /api/transactions/:id/category and POST
\* /api/recategorize-transactions.  A recategorize run begins when no other
\* run is under way; uploads and edits go on between its awaits.
MaxRuns == 2
MaxEdits == 1
RecategorizeFiles == {FileTwoRows}
EditCategories == {"other"}

\* One statement file is uploaded in a behaviour, by the first request; the
\* persistence operations of the upload all return.
RecategorizeArrival(u) ==
  /\ Active = {}
  /\ u = 1
  /\ \E f \in RecategorizeFiles : Receive(u, f, "", TRUE)

UploadStep(u) ==
  CheckDuplicate(u, TRUE) \/ InsertTransaction(u, TRUE) \/ Complete(u, TRUE)

\* PUT /api/transactions/:id/category with the id of a stored row (the
\* rowid stands for the id: rows are never deleted).
EditCategory ==
  /\ edits < MaxEdits
  /\ \E id \in 1..Len(transactions), categoryId \in EditCategories :
       transactions' = [transactions EXCEPT ![id].category_id = categoryId]
  /\ edits' = edits + 1
  /\ UNCHANGED <<uploadVars, faults, categories, call, category, parsed, returned,
                 categorizerVars, recategorize, runs, bulkVars>>

\* `SELECT id, description, merchant_name, category_id FROM transactions`
selectTransactions(store) ==
  [id \in 1..Len(store) |->
     [id |-> id, description |-> store[id].description,
      merchant_name |-> store[id].merchant_name, category_id |-> store[id].category_id]]

\* `categorizeTransaction(transaction.description, transaction.merchant_name)`
newCategoryId(transaction) ==
  categorizeTransaction(transaction.description, transaction.merchant_name)

updateCategory_Nothing(store, id, categoryId) == store

\* `UPDATE transactions SET category_id = ? WHERE id = ?`
updateCategory(store, id, categoryId) ==
  [store EXCEPT ![id].category_id = categoryId]

\* The run that ended, as reported (status 200) or failed (status 500).
EndedRun(status, frame, updated, unchanged, table) ==
  [status |-> status, updatedCount |-> updated, unchangedCount |-> unchanged,
   totalTransactions |-> Len(frame.rows), readTable |-> frame.readTable,
   endTable |-> table,
   undisturbed |-> frame.undisturbed /\ table = frame.expected]

\* The SELECT of a new run resolves with the rows of the table, or rejects
\* and the catch block answers 500.
RecategorizeRead(ok) ==
  /\ recategorize.pc = "idle"
  /\ Len(runs) < MaxRuns
  /\ MayRaise(ok)
  /\ IF ok
     THEN /\ recategorize' = [pc |-> "loop", rows |-> selectTransactions(transactions),
                              idx |-> 1, updatedCount |-> 0, unchangedCount |-> 0,
                              readTable |-> transactions, expected |-> transactions,
                              undisturbed |-> TRUE]
          /\ runs' = runs
     ELSE /\ recategorize' = IdleFrame
          /\ runs' = Append(runs, EndedRun(500, IdleFrame, 0, 0, transactions))
  /\ UNCHANGED <<uploadVars, transactions, categories, call, category, parsed, returned,
                 categorizerVars, edits, bulkVars>>

\* The first row at or after position i whose category the rules no longer
\* give; one past the last row when there is none.
RECURSIVE nextChanged(_, _)
nextChanged(rows, i) ==
  IF i > Len(rows) \/ newCategoryId(rows[i]) # rows[i].category_id THEN i
  ELSE nextChanged(rows, i + 1)

\* The loop goes on from row idx without awaiting over the rows that keep
\* their category; at the first that does not it awaits the UPDATE, which
\* changes the row or rejects (500).  Past the last row it answers 200.
RecategorizeContinue(ok) ==
  /\ recategorize.pc = "loop"
  /\ LET next == nextChanged(recategorize.rows, recategorize.idx)
         unchanged == recategorize.unchangedCount + (next - recategorize.idx)
     IN IF next > Len(recategorize.rows)
        THEN /\ ok
             /\ runs' = Append(runs, EndedRun(200, recategorize, recategorize.updatedCount,
                                               unchanged, transactions))
             /\ recategorize' = IdleFrame
             /\ UNCHANGED <<transactions, faults>>
        ELSE /\ MayRaise(ok)
             /\ IF ok
                THEN /\ transactions' = updateCategory(transactions, recategorize.rows[next].id,
                                                       newCategoryId(recategorize.rows[next]))
                     /\ recategorize' =
                          [recategorize EXCEPT
                             !.idx = next + 1,
                             !.updatedCount = recategorize.updatedCount + 1,
                             !.unchangedCount = unchanged,
                             !.undisturbed = recategorize.undisturbed
                                               /\ transactions = recategorize.expected,
                             !.expected = transactions']
                     /\ runs' = runs
                ELSE /\ runs' = Append(runs, EndedRun(500, recategorize,
                                                      recategorize.updatedCount, unchanged,
                                                      transactions))
                     /\ recategorize' = IdleFrame
                     /\ UNCHANGED transactions
  /\ UNCHANGED <<uploadVars, categories, call, category, parsed, returned,
                 categorizerVars, edits, bulkVars>>

NextRecategorize ==
  \/ \E u \in Uploads : RecategorizeArrival(u) \/ UploadStep(u)
  \/ EditCategory
  \/ \E ok \in BOOLEAN : RecategorizeRead(ok) \/ RecategorizeContinue(ok)

RecategorizeSpec == Init /\ [][NextRecategorize]_vars

\* TransactionService on one Database, that is one sqlite connection.  Calls
\* of bulkCreateTransactions overlap: each goes on between two of its
\* awaits, and the statements reach the connection in the order of the
\* steps.  A statement returns or fails; a failing INSERT leaves an open
\* transaction as it is or, for the errors after which sqlite rolls back by
\* itself (SQLITE_FULL, SQLITE_IOERR, ...), ends it.
InsertResults == {"ok", "error", "rolled back"}

\* BEGIN TRANSACTION / COMMIT / ROLLBACK on the connection.
beginTransaction(c) == [c EXCEPT !.inTransaction = TRUE, !.savepoint = c.rows]
commit(c) == [c EXCEPT !.inTransaction = FALSE, !.savepoint = <<>>]
rollback(c) == [rows |-> c.savepoint, inTransaction |-> FALSE, savepoint |-> <<>>]

\* `await this.db.beginTransaction()`, before the try block: BEGIN fails
\* inside a transaction, and the call throws.
BulkBegin(b, batch, ok) ==
  /\ bulk[b].pc = "idle"
  /\ \A c \in Batches : c < b => bulk[c].pc # "idle"
  /\ connection.inTransaction => ok
  /\ MayRaise(ok)
  /\ IF ok /\ ~connection.inTransaction
     THEN /\ connection' = beginTransaction(connection)
          /\ bulk' = [bulk EXCEPT ![b].pc = "insert", ![b].batch = batch, ![b].idx = 1]
     ELSE /\ bulk' = [bulk EXCEPT ![b].pc = "thrown", ![b].batch = batch]
          /\ UNCHANGED connection
  /\ UNCHANGED <<uploadVars, transactions, categories, call, category, parsed, returned,
                 categorizerVars, recategorizeVars>>

\* The INSERT of createTransaction.  It fails for a transaction the table
\* does not take, and may fail for any other.
BulkInsert(b, result) ==
  /\ bulk[b].pc = "insert"
  /\ result = "rolled back" => connection.inTransaction
  /\ ~bulk[b].batch[bulk[b].idx] => result = "error"
  /\ MayRaise(result = "ok" \/ ~bulk[b].batch[bulk[b].idx])
  /\ connection' =
       CASE result = "ok" ->
              [connection EXCEPT !.rows = Append(@, [batch |-> b, item |-> bulk[b].idx])]
         [] result = "error" -> connection
         [] result = "rolled back" -> rollback(connection)
  /\ bulk' = [bulk EXCEPT ![b].pc = IF result = "ok" THEN "select" ELSE "rollback"]
  /\ UNCHANGED <<uploadVars, transactions, categories, call, category, parsed, returned,
                 categorizerVars, recategorizeVars>>

\* getTransactionById at the end of createTransaction, results.push(created).
BulkSelect(b, ok) ==
  /\ bulk[b].pc = "select"
  /\ MayRaise(ok)
  /\ bulk' = IF ok
             THEN [bulk EXCEPT ![b].results = @ + 1, ![b].idx = @ + 1,
                               ![b].pc = IF bulk[b].idx + 1 \in Items
                                         THEN "insert" ELSE "commit"]
             ELSE [bulk EXCEPT ![b].pc = "rollback"]
  /\ UNCHANGED <<uploadVars, transactions, categories, call, category, parsed, returned,
                 categorizerVars, recategorizeVars, connection>>

\* `await this.db.commit()`: COMMIT fails outside a transaction.
BulkCommit(b, ok) ==
  /\ bulk[b].pc = "commit"
  /\ ~connection.inTransaction => ok
  /\ MayRaise(ok)
  /\ IF ok /\ connection.inTransaction
     THEN /\ connection' = commit(connection)
          /\ bulk' = [bulk EXCEPT ![b].pc = "returned"]
     ELSE /\ bulk' = [bulk EXCEPT ![b].pc = "rollback"]
          /\ UNCHANGED connection
  /\ UNCHANGED <<uploadVars, transactions, categories, call, category, parsed, returned,
                 categorizerVars, recategorizeVars>>

\* The catch block: `await this.db.rollback(); throw error`.  ROLLBACK
\* fails outside a transaction, and the call throws that error instead.
BulkRollback(b) ==
  /\ bulk[b].pc = "rollback"
  /\ connection' = IF connection.inTransaction THEN rollback(connection) ELSE connection
  /\ bulk' = [bulk EXCEPT ![b].pc = "thrown"]
  /\ UNCHANGED <<uploadVars, transactions, faults, categories, call, category, parsed,
                 returned, categorizerVars, recategorizeVars>>

NextBulk ==
  \E b \in Batches :
    \/ \E batch \in BatchInputs, ok \in BOOLEAN : BulkBegin(b, batch, ok)
    \/ \E ok \in BOOLEAN : BulkSelect(b, ok) \/ BulkCommit(b, ok)
    \/ \E result \in InsertResults : BulkInsert(b, result)
    \/ BulkRollback(b)

BulkSpec == Init /\ [][NextBulk]_vars

TypeOK ==
  /\ pc \in [Uploads -> {"idle", "check", "insert", "finalize", "catch", "done"}]
  /\ faults \in 0..MaxFaults
  /\ \A u \in Uploads : idx[u] \in 0..(Len(txs[u]) + 1)

\* ------------------------------------------------------------ properties
\* The duplicate key (description, amount, date) of the specification.
SameKey(r, t) ==
  r.description = t.description /\ r.amount = t.amount /\ r.date = t.date

KeyIn(t, store) == \E i \in 1..Len(store) : SameKey(store[i], t)

\* Positions of batch u with the given outcome and the key of transaction t.
Occurrences(u, t) == {i \in 1..Len(txs[u]) : SameKey(txs[u][i], t)}
WithOutcome(u, t, o) ==
  {i \in Occurrences(u, t) : i <= Len(outcome[u]) /\ outcome[u][i] = o}

\* The step just taken raised a persistence error on a row of batch u.
RowRaised(u) ==
  /\ Len(outcome'[u]) = Len(outcome[u]) + 1
  /\ outcome'[u][Len(outcome'[u])] = "error"

CheckStep(u) == pc[u] = "check" /\ (pc'[u] # "check" \/ idx'[u] # idx[u])
InsertStep(u) == pc[u] = "insert" /\ pc'[u] # "insert"

\* v re-ingests the file of u into the same source directly after u, no
\* other upload in between or overlapping, no persistence error in either.
SecondRunOf(u, v) ==
  /\ pc[u] = "done" /\ pc[v] = "done"
  /\ prevOf[v] = u /\ solo[u] /\ solo[v]
  /\ file[v] = file[u] /\ sourceId[v] = sourceId[u]
  /\ response[u] = "200 success"
  /\ ~dbError[u] /\ ~dbError[v]

\* C1: re-ingesting the same file into the same source directly after a
\* first successful run, with no other upload in between and no persistence
\* error, completes, inserts nothing, reports processed = 0 and
\* duplicates = total extracted, and leaves the table as the first run left it.
C1_Idempotent ==
  \A u, v \in Uploads :
    SecondRunOf(u, v) =>
      /\ response[v] = "200 success"
      /\ storedCount[v] = 0
      /\ duplicateCount[v] = Len(txs[v])
      /\ uploaded_files[v].processed_count = 0
      /\ uploaded_files[v].duplicate_count = uploaded_files[v].transactions_count
      /\ endStore[v] = endStore[u]

C1_Witness ==
  \E u, v \in Uploads :
    /\ SecondRunOf(u, v)
    /\ storedCount[u] = 2
    /\ Len(txs[v]) = 2

\* C2: for the transaction a request is at, when the duplicate query returns:
\* if the table holds a row of equal (description, amount, date), the
\* transaction is skipped (the loop moves on without an insert and without
\* entering the error path), duplicateCount grows by exactly one and nothing
\* is stored; otherwise the request goes on to the insert, and when the insert
\* returns exactly one row, of that key, is appended and storedCount grows by
\* exactly one.  (A query or insert that raises is the case of C6.)
C2_PerRow ==
  [][\A u \in Uploads :
       /\ (CheckStep(u) /\ ~RowRaised(u)) =>
            IF KeyIn(txs[u][idx[u]], transactions)
            THEN /\ transactions' = transactions
                 /\ duplicateCount'[u] = duplicateCount[u] + 1
                 /\ storedCount'[u] = storedCount[u]
                 /\ idx'[u] = idx[u] + 1
                 /\ pc'[u] \in {"check", "finalize"}
            ELSE /\ transactions' = transactions
                 /\ duplicateCount'[u] = duplicateCount[u]
                 /\ storedCount'[u] = storedCount[u]
                 /\ idx'[u] = idx[u]
                 /\ pc'[u] = "insert"
       /\ (InsertStep(u) /\ ~RowRaised(u)) =>
            /\ Len(transactions') = Len(transactions) + 1
            /\ SubSeq(transactions', 1, Len(transactions)) = transactions
            /\ SameKey(transactions'[Len(transactions')], txs[u][idx[u]])
            /\ storedCount'[u] = storedCount[u] + 1
            /\ duplicateCount'[u] = duplicateCount[u]
     ]_vars

\* Both cases of C2 have happened in one batch: a row skipped as a duplicate
\* and a row inserted, while the table holds a row that differs only in date.
C2_Witness ==
  \E u \in Uploads :
    /\ pc[u] = "done"
    /\ \E i, j \in 1..Len(outcome[u]) :
         outcome[u][i] = "inserted" /\ outcome[u][j] = "duplicate"
    /\ storedCount[u] = 1 /\ duplicateCount[u] = 1
    /\ \E k \in 1..Len(startStore[u]) :
         /\ startStore[u][k].description = txs[u][1].description
         /\ startStore[u][k].amount = txs[u][1].amount
         /\ startStore[u][k].date # txs[u][1].date

\* C3: a transaction whose key matches only rows stored under another source
\* than the upload's is not classified as a duplicate: the request goes on
\* to insert it.
C3_ScopedToSource ==
  [][\A u \in Uploads :
       ( /\ CheckStep(u) /\ ~RowRaised(u)
         /\ KeyIn(txs[u][idx[u]], transactions)
         /\ \A i \in 1..Len(transactions) :
              SameKey(transactions[i], txs[u][idx[u]])
                => transactions[i].source_id # sourceId[u] )
       => /\ pc'[u] = "insert"
          /\ duplicateCount'[u] = duplicateCount[u]
     ]_vars

\* The rows request u has added to the table, for a request that ran alone.
AddedBy(u) == SubSeq(endStore[u], Len(startStore[u]) + 1, Len(endStore[u]))

CountKey(t, store) == Cardinality({i \in 1..Len(store) : SameKey(store[i], t)})

CleanSoloSuccess(u) ==
  pc[u] = "done" /\ response[u] = "200 success" /\ solo[u] /\ ~dbError[u]

\* C4: a request settles its transactions strictly in order, each one only
\* after the previous one has its outcome; so a batch never inserts two
\* occurrences of one key, and a batch that ran without persistence error and
\* without another upload overlapping inserts exactly one row for a key that
\* occurs k times in the file and was not in the table when it arrived, and
\* counts the other k-1 occurrences as duplicates.
C4_RepeatedKey ==
  \A u \in Uploads :
    /\ pc[u] \in {"check", "insert"} => Len(outcome[u]) = idx[u] - 1
    /\ \A i \in 1..Len(outcome[u]) :
         Cardinality(WithOutcome(u, txs[u][i], "inserted")) <= 1
    /\ CleanSoloSuccess(u) =>
         \A i \in 1..Len(txs[u]) :
           ~KeyIn(txs[u][i], startStore[u]) =>
             /\ CountKey(txs[u][i], AddedBy(u)) = 1
             /\ Cardinality(WithOutcome(u, txs[u][i], "duplicate"))
                  = Cardinality(Occurrences(u, txs[u][i])) - 1

C4_Witness ==
  \E u \in Uploads :
    /\ CleanSoloSuccess(u)
    /\ file[u] = FileRepeated
    /\ ~KeyIn(txs[u][1], startStore[u])
    /\ storedCount[u] = 1 /\ duplicateCount[u] = 1
    /\ Len(AddedBy(u)) = 1

\* C5: the insert is a step of its own, taken without a lock and without
\* looking at the table again: whenever a request that has passed the
\* duplicate query takes its insert and the database does not raise, a row of
\* the transaction's key is appended, also when another request has stored
\* the same key in the meantime; the row is counted as processed and the
\* request goes on.  (That two overlapping uploads of one file do both get
\* there and both complete is the reachable state C5_Witness.)
C5_NoLockRace ==
  [][\A u \in Uploads :
       (InsertStep(u) /\ faults' = faults) =>
          /\ Len(transactions') = Len(transactions) + 1
          /\ SameKey(transactions'[Len(transactions')], txs[u][idx[u]])
          /\ CountKey(txs[u][idx[u]], transactions')
               = CountKey(txs[u][idx[u]], transactions) + 1
          /\ storedCount'[u] = storedCount[u] + 1
          /\ pc'[u] \in {"check", "finalize"}
    ]_vars

\* Two overlapping uploads of the same file into the same source have both
\* completed, each has inserted a row, and the table holds the key twice.
C5_Witness ==
  \E u, v \in Uploads :
    /\ u # v
    /\ file[u] = file[v] /\ sourceId[u] = sourceId[v]
    /\ ~solo[u] /\ ~solo[v]
    /\ response[u] = "200 success" /\ response[v] = "200 success"
    /\ storedCount[u] >= 1 /\ storedCount[v] >= 1
    /\ CountKey(txs[u][1], transactions) >= 2

\* C6: when the duplicate query or the insert of a row raises, neither count
\* changes and nothing is stored for the row, the loop goes on with the next
\* row (or to the completion step after the last one) and not to the error
\* path; every row of the batch has been settled when the loop is left, and
\* a request whose only errors were row errors ends with the success response
\* and a file record 'completed'.
C6_RowErrorContained ==
  /\ [][\A u \in Uploads :
          ((CheckStep(u) \/ InsertStep(u)) /\ RowRaised(u)) =>
             /\ storedCount'[u] = storedCount[u]
             /\ duplicateCount'[u] = duplicateCount[u]
             /\ transactions' = transactions
             /\ idx'[u] = idx[u] + 1
             /\ pc'[u] = IF idx[u] < Len(txs[u]) THEN "check" ELSE "finalize"
             /\ response'[u] = "none"
       ]_vars
  /\ [](\A u \in Uploads :
          /\ pc[u] = "finalize" => Len(outcome[u]) = Len(txs[u])
          /\ (pc[u] = "done" /\ Len(outcome[u]) > 0 /\ error[u] = "") =>
               /\ Len(outcome[u]) = Len(txs[u])
               /\ response[u] = "200 success"
               /\ uploaded_files[u].status = "completed")

\* A batch whose first row raised and whose second row was then inserted
\* has ended with the success response.
C6_Witness ==
  \E u \in Uploads :
    /\ pc[u] = "done"
    /\ response[u] = "200 success"
    /\ uploaded_files[u].status = "completed"
    /\ outcome[u] = <<"error", "inserted">>
    /\ storedCount[u] = 1 /\ duplicateCount[u] = 0

\* The request ended in a file-level failure: unsupported type, nothing
\* extracted, or a temp file that could not be read.
FileLevelFailure(u) ==
  /\ pc[u] = "done"
  /\ \/ response[u] = "400 Unsupported file type"
     \/ response[u] = "400 No transactions found"
     \/ response[u] = "500 File processing failed" /\ error[u] = "ENOENT"

\* C7: once the response of an upload that ended in a file-level failure has
\* been sent, its file record has status 'failed' and an error message, and
\* is not left in status 'processing' (no persistence operation having
\* raised).
C7_FailureRecorded ==
  \A u \in Uploads :
    (FileLevelFailure(u) /\ ~dbError[u]) =>
      /\ uploaded_files[u].status = "failed"
      /\ uploaded_files[u].error_message # ""

\* C8: the temp file of an upload is gone once the upload has ended, on
\* whichever path it ended.
C8_TempFileRemoved ==
  \A u \in Uploads : pc[u] = "done" => ~tempFile[u]

\* C9: an upload that reports success has at least one of the transactions
\* it extracted in the table.
C9_NoEmptySuccess ==
  \A u \in Uploads :
    response[u] = "200 success" =>
      \E i \in 1..Len(txs[u]) : KeyIn(txs[u][i], transactions)

\* The strategy the specification prescribes: content first.
PrescribedStrategy(f) ==
  IF f.magic THEN "pdf"
  ELSE IF f.ext = "csv" \/ f.comma THEN "csv"
  ELSE "unsupported"

\* C10: format detection gives a file with the '%PDF' header to the PDF
\* strategy whatever its name and first bytes, otherwise a .csv name or a
\* comma in the first bytes selects the delimited strategy, and every other
\* file is rejected as unsupported.
C10_ContentFirst ==
  \A u \in Uploads :
    strategy[u] # "none" => strategy[u] = PrescribedStrategy(file[u])

\* The rules that have a keyword occurring in the text, and how many of its
\* keywords occur.
MatchingRules(text) ==
  {r \in 1..Len(Rules) : \E k \in Rules[r].keywords : includes(text, k)}
KeywordHits(text, r) == Cardinality({k \in Rules[r].keywords : includes(text, k)})
CallText == toLowerCase(call.description \o call.merchantName)

C12_BuiltTransactionsValid ==
  (call.fn = "parseCSV" /\ parsed.done) =>
     \A i \in 1..Len(parsed.transactions) :
       /\ parsed.transactions[i].date # NullDate
       /\ parsed.transactions[i].description \notin {Empty, Blank}
       /\ parsed.transactions[i].amount # NaN
       /\ parsed.transactions[i].amount # 0

\* C13: for a delimited file with records after its first one, the
\* header-driven parser is chosen exactly when a cell of the first record of
\* the file holds a header token, the positional parser otherwise; what the
\* later records hold has no part in the choice.
C13_FirstRecordDecides ==
  (call.fn = "parseCSV" /\ parsed.done /\ Len(call.file.lines) >= 2) =>
     (parsed.hasHeaders <=>
        \E j \in DOMAIN call.file.lines[1] : testHeaderToken(call.file.lines[1][j]))

\* The type of the file is none the handler supports, by name and by content.
UnsupportedType(f) == f.ext \notin {"csv", "pdf"} /\ ~f.magic /\ ~f.comma

\* C14: an upload of a file that cannot be read or whose type is unsupported
\* is rejected before any row processing: nothing is extracted, no row gets
\* an outcome, both counts stay 0, and the table is the same when the upload
\* ends as it was when the upload arrived.
C14_RejectedBeforeRows ==
  \A u \in Uploads :
    (pc[u] # "idle" /\ file[u] # NoFile
       /\ (~file[u].readable \/ UnsupportedType(file[u]))) =>
      /\ txs[u] = <<>> /\ outcome[u] = <<>>
      /\ storedCount[u] = 0 /\ duplicateCount[u] = 0
      /\ pc[u] \in {"catch", "done"}
      /\ pc[u] = "catch" => transactions = startStore[u]
      /\ pc[u] = "done" =>
           /\ endStore[u] = startStore[u]
           /\ response[u] \in {"400 Unsupported file type", "500 File processing failed"}

\* An upload whose temp file could not be read has been rejected while the
\* table already held rows.
C14_Witness ==
  \E u \in Uploads :
    /\ pc[u] = "done" /\ file[u] = FileUnreadable /\ error[u] = "ENOENT"
    /\ Len(startStore[u]) > 0
    /\ transactions = startStore[u]

\* What really happened to the batch of u.
InsertedBy(u) == Cardinality({i \in 1..Len(outcome[u]) : outcome[u][i] = "inserted"})
SkippedBy(u) == Cardinality({i \in 1..Len(outcome[u]) : outcome[u][i] = "duplicate"})
ReturnedCounts(u) == {body[u][k] : k \in DOMAIN body[u]}

\* C15: an upload that ended with the success response has a file record
\* 'completed' whose transactions_count is the number of transactions
\* extracted, whose processed_count is the number of rows the upload inserted
\* and whose duplicate_count is the number of rows it skipped as duplicates;
\* and these three counts are the counts returned in the response.
C15_SummaryIsOutcome ==
  \A u \in Uploads :
    response[u] = "200 success" =>
      /\ uploaded_files[u].status = "completed"
      /\ uploaded_files[u].transactions_count = Len(txs[u])
      /\ uploaded_files[u].processed_count = InsertedBy(u)
      /\ uploaded_files[u].duplicate_count = SkippedBy(u)
      /\ {uploaded_files[u].transactions_count, uploaded_files[u].processed_count,
          uploaded_files[u].duplicate_count} \subseteq ReturnedCounts(u)

\* A line under the header Date,Description,Amount that has all three: a
\* date that parses, a description, an amount that is a number other than 0.
CompleteLine(l) ==
  /\ Len(l) = 3
  /\ parseDate(l[1]) # NullDate
  /\ l[2] \notin {Empty, Blank}
  /\ parseAmount(l[3]) \notin {NaN, 0}

\* The (date, description, amount) of the complete lines of a file with
\* that header, in the order of the file.
ExpectedKeys(f) ==
  LET good == SelectSeq(Tail(f.lines), CompleteLine)
  IN [i \in 1..Len(good) |->
        [date |-> parseDate(good[i][1]), description |-> good[i][2],
         amount |-> parseAmount(good[i][3])]]

KeysOf(batch) ==
  [i \in 1..Len(batch) |->
     [date |-> batch[i].date, description |-> batch[i].description,
      amount |-> batch[i].amount]]

HeaderDriven(u) ==
  /\ strategy[u] = "csv" /\ Len(file[u].lines) >= 2 /\ file[u].lines[1] = HeaderLine

\* C16: in a CSV with the header Date,Description,Amount a row without
\* amount is dropped and does not stop the file: the batch is exactly the
\* complete rows in file order, every one of them is taken through the store
\* loop before the upload completes, and the extracted total persisted at
\* completion counts the complete rows only.
C16_MalformedRowDropped ==
  \A u \in Uploads :
    HeaderDriven(u) =>
      /\ KeysOf(txs[u]) = ExpectedKeys(file[u])
      /\ response[u] = "200 success" =>
           /\ Len(outcome[u]) = Len(ExpectedKeys(file[u]))
           /\ uploaded_files[u].transactions_count = Len(ExpectedKeys(file[u]))

\* The file whose first row lacks the amount has completed: one of its two
\* rows was extracted, and that one was inserted.
C16_Witness ==
  \E u \in Uploads :
    /\ file[u] = FileMissingAmount /\ response[u] = "200 success"
    /\ Len(file[u].lines) = 3 /\ ~CompleteLine(file[u].lines[2])
    /\ uploaded_files[u].transactions_count = 1
    /\ outcome[u] = <<"inserted">>
    /\ KeyIn(txs[u][1], transactions)

\* C17: the category table is the seeded one in every state an upload can
\* lead to, and every category_id stored with a transaction is the id of a
\* seeded category.
C17_CategoriesImmutable ==
  /\ categories = SeedCategories
  /\ \A r \in 1..Len(Rules) : Rules[r].categoryId \in categories
  /\ \A i \in 1..Len(transactions) : transactions[i].category_id \in categories

\* An upload has completed and stored rows of two different categories.
C17_Witness ==
  \E u \in Uploads :
    /\ response[u] = "200 success" /\ storedCount[u] = 2
    /\ \E i, j \in 1..Len(transactions) :
         /\ transactions[i].category_id = "groceries"
         /\ transactions[j].category_id = "gas"
    /\ categories = SeedCategories

\* The upload of the two-row file into an empty table has ended, no
\* persistence operation having raised.
TwoRowScenario(u) ==
  /\ pc[u] = "done" /\ file[u] = FileTwoRows
  /\ startStore[u] = <<>> /\ ~dbError[u]

\* C18: the CSV with header Date,Description,Amount and the rows
\* (07/28/2024, Walmart Supercenter, -89.45) and (07/27/2024, Shell Gas
\* Station, -45.67), uploaded into an empty table, ends in success with
\* exactly two stored transactions, the first in category groceries and the
\* second in category gas, processed = 2 and duplicates = 0.
C18_TwoRowCsv ==
  \A u \in Uploads :
    TwoRowScenario(u) =>
      /\ response[u] = "200 success"
      /\ Len(endStore[u]) = 2
      /\ endStore[u][1].description = Walmart /\ endStore[u][1].amount = -8945
      /\ endStore[u][1].date = "2024-07-28" /\ endStore[u][1].category_id = "groceries"
      /\ endStore[u][2].description = Shell /\ endStore[u][2].amount = -4567
      /\ endStore[u][2].date = "2024-07-27" /\ endStore[u][2].category_id = "gas"
      /\ storedCount[u] = 2 /\ duplicateCount[u] = 0
      /\ uploaded_files[u].processed_count = 2 /\ uploaded_files[u].duplicate_count = 0
      /\ body[u] = [transactionCount |-> 2, duplicateCount |-> 0]

C18_Witness ==
  \E u \in Uploads :
    /\ TwoRowScenario(u)
    /\ Len(transactions) = 2
    /\ outcome[u] = <<"inserted", "inserted">>

\* C19: no step removes or changes a stored row, so the rows an upload has
\* inserted stay when a later row of it raises and when the upload itself
\* fails afterwards; an upload that ran alone leaves behind exactly the rows
\* it counted as stored, however it ended.
C19_NoRollback ==
  /\ [][\A i \in 1..Len(transactions) :
          i <= Len(transactions') /\ transactions'[i] = transactions[i]]_vars
  /\ [](\A u \in Uploads :
          (pc[u] = "done" /\ solo[u]) =>
             /\ Len(endStore[u]) = Len(startStore[u]) + storedCount[u]
             /\ SubSeq(endStore[u], 1, Len(startStore[u])) = startStore[u])

\* An upload has failed after inserting both of its rows, and the rows are
\* in the table.
C19_Witness ==
  \E u \in Uploads :
    /\ response[u] = "500 File processing failed"
    /\ uploaded_files[u].status = "failed"
    /\ outcome[u] = <<"inserted", "inserted">>
    /\ Len(transactions) = Len(startStore[u]) + 2
    /\ \A i \in 1..2 : KeyIn(txs[u][i], transactions)

RECURSIVE SumStored(_)
SumStored(S) ==
  IF S = {} THEN 0
  ELSE LET u == CHOOSE x \in S : TRUE IN storedCount[u] + SumStored(S \ {u})

RowErrors(u) == {i \in 1..Len(outcome[u]) : outcome[u][i] = "error"}

\* C20: at every point of the store loop and at completion, the processed
\* and duplicate counts of an upload add up to at most the number of
\* extracted transactions, the processed count is the number of rows the
\* upload has inserted (the table holds exactly the rows the uploads have
\* counted), and at completion the two counts add up to the total exactly
\* when no row of the batch raised a persistence error.
C20_CountsBounded ==
  /\ \A u \in Uploads :
       /\ storedCount[u] + duplicateCount[u] <= Len(txs[u])
       /\ storedCount[u] = InsertedBy(u)
       /\ duplicateCount[u] = SkippedBy(u)
       /\ response[u] = "200 success" =>
            (storedCount[u] + duplicateCount[u] = Len(txs[u]) <=> RowErrors(u) = {})
  /\ SumStored(Uploads) = Len(transactions)

\* Both sides of the equivalence: one completed upload whose counts add up
\* to its total, and one in which a row raised and they do not.
C20_Witness ==
  \E u, v \in Uploads :
    /\ response[u] = "200 success" /\ response[v] = "200 success"
    /\ RowErrors(u) = {} /\ storedCount[u] + duplicateCount[u] = Len(txs[u])
    /\ storedCount[u] > 0 /\ duplicateCount[u] > 0
    /\ RowErrors(v) # {} /\ storedCount[v] + duplicateCount[v] < Len(txs[v])

\* C21: with uploads arriving one after another into a table that starts
\* without two rows of equal (description, amount, date), no two rows of the
\* table ever have an equal (description, amount, date), whatever the files
\* and the sources.
C21_KeysUnique ==
  \A i, j \in 1..Len(transactions) :
    i # j => ~SameKey(transactions[i], transactions[j])

\* Two uploads into different sources have completed one after the other,
\* the second has skipped a row the first had stored.
C21_Witness ==
  \E u, v \in Uploads :
    /\ prevOf[v] = u /\ sourceId[u] # sourceId[v]
    /\ response[u] = "200 success" /\ response[v] = "200 success"
    /\ storedCount[u] > 0 /\ duplicateCount[v] > 0
    /\ Len(transactions) >= 2

\* A line with the positional layout: at least five cells, a date that
\* parses in the first, a number other than 0 in the second, a description
\* in the fifth.
ValidPositional(l) ==
  /\ Len(l) >= 5
  /\ parseDate(l[1]) # NullDate
  /\ parseAmount(l[2]) \notin {NaN, 0}
  /\ l[5] \notin {Empty, Blank}

PositionalKeys(lines) ==
  LET good == SelectSeq(lines, ValidPositional)
  IN [i \in 1..Len(good) |->
        [date |-> parseDate(good[i][1]), description |-> good[i][5],
         amount |-> parseAmount(good[i][2])]]

\* C22: when no header is recognised, every record of the file, the first
\* one included, is read as (date, amount, _, _, description) and gives a
\* transaction if the three are valid; the transactions are exactly those of
\* the valid records, in file order.
C22_EveryRecordPositional ==
  (/\ call.fn = "parseCSV" /\ parsed.done /\ ~parsed.hasHeaders
   /\ \A j \in DOMAIN call.file.lines[1] : ~testHeaderToken(call.file.lines[1][j])) =>
     KeysOf(parsed.transactions) = PositionalKeys(call.file.lines)

\* The cell a line has in the column the header line names; Empty when the
\* line is shorter or the header has no such column.
CellUnder(header, l, name) ==
  IF \E j \in DOMAIN header : header[j] = name /\ j <= Len(l)
  THEN l[CHOOSE j \in DOMAIN header : header[j] = name /\ j <= Len(l)]
  ELSE Empty

HasDebitCreditColumns(header) ==
  /\ \E j \in DOMAIN header : header[j] = <<"Debit">>
  /\ \E j \in DOMAIN header : header[j] = <<"Credit">>

\* The amount the debit/credit rule prescribes for a line whose Debit or,
\* failing that, Credit cell is a number.
Magnitude(x) == IF x < 0 THEN -x ELSE x
PrescribedDebitCredit(header, l) ==
  IF CellUnder(header, l, <<"Debit">>) # Empty
  THEN -Magnitude(parseAmount(CellUnder(header, l, <<"Debit">>)))
  ELSE Magnitude(parseAmount(CellUnder(header, l, <<"Credit">>)))

DebitOrCreditNumeric(header, l) ==
  IF CellUnder(header, l, <<"Debit">>) # Empty
  THEN parseAmount(CellUnder(header, l, <<"Debit">>)) # NaN
  ELSE /\ CellUnder(header, l, <<"Credit">>) # Empty
       /\ parseAmount(CellUnder(header, l, <<"Credit">>)) # NaN

\* C23: in a file whose header line has Debit and Credit columns, every row
\* with a numeric non-empty Debit gets the amount -|debit|, every other row
\* with a numeric non-empty Credit gets +|credit|, whatever an Amount column
\* of the row holds; this in each of the three row parsers.
C23_DebitCreditPrecedence ==
  (/\ call.fn = "parseCSV" /\ parsed.done
   /\ HasDebitCreditColumns(call.file.lines[1])) =>
     \A i \in 1..Len(parsed.rowAmounts) :
       DebitOrCreditNumeric(call.file.lines[1], call.file.lines[i + 1]) =>
         /\ parsed.rowAmounts[i].server =
              PrescribedDebitCredit(call.file.lines[1], call.file.lines[i + 1])
         /\ parsed.rowAmounts[i].parser =
              PrescribedDebitCredit(call.file.lines[1], call.file.lines[i + 1])
         /\ parsed.rowAmounts[i].statementParser =
              PrescribedDebitCredit(call.file.lines[1], call.file.lines[i + 1])

\* The line has a date, a description and a number after them.
PdfRow(line) ==
  /\ Len(line) >= 3
  /\ isDateWord(line[1])
  /\ \E i \in 3..Len(line) : amountGroup(line[i]) # ""

PaymentOrCredit(line) ==
  \E i \in DOMAIN line : line[i] \in {"Payment", "PAYMENT", "Credit"}

\* The magnitude of the last number of the line, in cents.
ExtractedMagnitude(line) ==
  Magnitude(parseAmount(<<amountGroup(line[lastAmountWord(line)])>>))

\* C24: a line of PDF text that gives a transaction gives it the positive
\* extracted magnitude if the line holds 'payment' or 'credit' in any case,
\* and the negated magnitude otherwise; this in both line parsers.
C24_SignFromKeywords ==
  (call.fn = "parsePDFLine" /\ returned.done /\ PdfRow(call.line)) =>
     /\ returned.statementParser # NullTransaction =>
          returned.statementParser.amount =
            IF PaymentOrCredit(call.line) THEN ExtractedMagnitude(call.line)
            ELSE -ExtractedMagnitude(call.line)
     /\ returned.parser # NullTransaction =>
          returned.parser.amount =
            IF PaymentOrCredit(call.line) THEN ExtractedMagnitude(call.line)
            ELSE -ExtractedMagnitude(call.line)

\* The rules of TransactionCategorizer with a keyword in the text of answer a.
AnswerText(a) == toLowerCase(a.description \o a.merchantName)
RulesHit(a) ==
  {r \in 1..Len(TransactionCategorizer_Rules) :
     \E k \in TransactionCategorizer_Rules[r].keywords : includes(AnswerText(a), k)}
RulesUsable(a) ==
  {r \in RulesHit(a) : TransactionCategorizer_Rules[r].categoryId \in a.map}

\* C25: every answer of TransactionCategorizer.categorizeTransaction is the
\* categoryId of the first rule that matches the text and whose id is in the
\* category map as loaded at the time of the call, and 'other' when there is
\* no such rule; a call made while the load is pending or after it failed
\* is answered 'other' whatever the input.
C25_OnlyLoadedCategories ==
  \A n \in 1..Len(answers) :
    /\ RulesUsable(answers[n]) = {} => answers[n].categoryId = "other"
    /\ RulesUsable(answers[n]) # {} =>
         \E r \in RulesUsable(answers[n]) :
           /\ \A q \in RulesUsable(answers[n]) : r <= q
           /\ answers[n].categoryId = TransactionCategorizer_Rules[r].categoryId
    /\ answers[n].loadState \in {"pending", "failed"} =>
         answers[n].categoryId = "other" /\ answers[n].map = {}

\* A Walmart purchase is answered 'other' while the load is pending, and a
\* later call, after the load of a table without 'gas', skips the gas rule
\* for the rule of a category that was loaded.
C25_Witness ==
  /\ Len(answers) = 2
  /\ answers[1].loadState = "pending" /\ answers[1].description = Walmart
  /\ answers[1].categoryId = "other"
  /\ answers[2].loadState = "loaded" /\ answers[2].description = Shell
  /\ "gas" \notin answers[2].map /\ answers[2].categoryId = "shopping"

\* The string is a calendar date written in one of the two formats.
CalendarDate(text) ==
  /\ text.shape \in {"MM/DD/YYYY", "YYYY-MM-DD"}
  /\ text.month \in 1..12
  /\ text.day >= 1
  /\ text.day <= (IF text.month = 2
                  THEN (IF (text.year % 4 = 0 /\ text.year % 100 # 0) \/ text.year % 400 = 0
                        THEN 29 ELSE 28)
                  ELSE IF text.month \in {4, 6, 9, 11} THEN 30 ELSE 31)

\* C26: for a calendar date written in a supported format, parseDate of the
\* parser module and of the server each return a result exactly when the
\* year is one of 1900..2099.
C26_YearRange ==
  (call.fn = "parseDate" /\ returned.done /\ CalendarDate(call.text)) =>
     /\ returned.parser # NoDate <=> call.text.year \in 1900..2099
     /\ returned.server # NoDate <=> call.text.year \in 1900..2099

\* C27: parseDate of each of the three modules returns the day, month and
\* year as written for a calendar date of a year in 1900..2099 written in a
\* supported format, and no result for a string that matches no format or
\* whose month or day is out of range.
C27_SameCalendarDay ==
  (call.fn = "parseDate" /\ returned.done) =>
     /\ (CalendarDate(call.text) /\ call.text.year \in 1900..2099) =>
          \A r \in {returned.server, returned.parser, returned.statementParser} :
            r = [year |-> call.text.year, month |-> call.text.month, day |-> call.text.day]
     /\ ~CalendarDate(call.text) =>
          \A r \in {returned.server, returned.parser, returned.statementParser} :
            r = NoDate

\* What is left of an amount string without '$', ',' and white space.
Remaining(text) == SelectSeq(text, LAMBDA part : part \notin {"$", ",", " "})

\* The number the digits of the remaining text write, in cents.
WrittenValue(text) ==
  LET digits == SelectSeq(Remaining(text), LAMBDA part : part \in {"45.67", "0.00", "1", "234.56"})
  IN IF digits = <<"45.67">> THEN 4567
     ELSE IF digits = <<"1", "234.56">> THEN 123456 ELSE 0

Number ==
  {<<"45.67">>, <<"1", "234.56">>, <<"0.00">>}
SignedNumber ==
  Number \cup {<<sign>> \o n : sign \in {"-", "+"}, n \in Number}
InParentheses(text) ==
  \E n \in SignedNumber : Remaining(text) = <<"(">> \o n \o <<")">>

\* C28: for a string that, without '$', ',' and white space, is a number
\* with or without sign, or such a number in parentheses, parseAmount of
\* each of the three modules returns minus the magnitude if the number is
\* in parentheses, and the number with the sign it is written with
\* otherwise.
C28_SignedValue ==
  (/\ call.fn = "parseAmount" /\ returned.done
   /\ (Remaining(call.text) \in SignedNumber \/ InParentheses(call.text))) =>
     \A r \in {returned.server, returned.parser, returned.statementParser} :
       r = IF InParentheses(call.text) \/ Remaining(call.text)[1] = "-"
           THEN -WrittenValue(call.text) ELSE WrittenValue(call.text)

\* Table b is table a with no other difference than the category_id of rows.
OnlyCategoryDiffers(a, b) ==
  /\ Len(a) = Len(b)
  /\ \A i \in 1..Len(a) : [b[i] EXCEPT !.category_id = a[i].category_id] = a[i]

\* C29: a recategorize run that no upload or edit wrote into leaves the
\* table as it read it but for the category_id of rows; every run that
\* reports has updatedCount + unchangedCount = the number of transactions it
\* read and reports as total (the number stored at its end, if nothing was
\* inserted meanwhile); and a run that reads the table as the reporting run
\* before it left it updates no row.
C29_RecategorizeIdempotent ==
  \A n \in 1..Len(runs) :
    /\ (runs[n].status = 200 /\ runs[n].undisturbed) =>
         OnlyCategoryDiffers(runs[n].readTable, runs[n].endTable)
    /\ runs[n].status = 200 =>
         /\ runs[n].updatedCount + runs[n].unchangedCount = runs[n].totalTransactions
         /\ runs[n].totalTransactions = Len(runs[n].readTable)
         /\ Len(runs[n].endTable) = Len(runs[n].readTable) =>
              runs[n].updatedCount + runs[n].unchangedCount = Len(runs[n].endTable)
    /\ (/\ n > 1 /\ runs[n].status = 200 /\ runs[n - 1].status = 200
        /\ runs[n - 1].undisturbed
        /\ runs[n].readTable = runs[n - 1].endTable) =>
         runs[n].updatedCount = 0

\* A run has put back the category of an edited row, and the run directly
\* after it found nothing to update in the same rows.
C29_Witness ==
  /\ Len(runs) = 2
  /\ runs[1].status = 200 /\ runs[1].undisturbed /\ runs[1].updatedCount = 1
  /\ runs[1].unchangedCount >= 1
  /\ runs[2].status = 200 /\ runs[2].readTable = runs[1].endTable
  /\ runs[2].updatedCount = 0 /\ runs[2].unchangedCount = runs[1].totalTransactions

\* The transactions of batch b the table holds.
StoredOf(b) == {i \in 1..Len(connection.rows) : connection.rows[i].batch = b}

\* Creating a transaction of batch b has failed, and the call has thrown.
CreationFailed(b) == bulk[b].pc = "thrown" /\ bulk[b].idx \in Items

\* C30: after a call of bulkCreateTransactions in which creating a
\* transaction failed, none of the transactions of its batch is in the
\* table; after a call that returned, all of them are.
C30_AllOrNothing ==
  \A b \in Batches :
    /\ CreationFailed(b) => StoredOf(b) = {}
    /\ bulk[b].pc = "returned" =>
         \A item \in Items :
           \E i \in StoredOf(b) : connection.rows[i].item = item

====
